---- MODULE Spec2Model ----
(***************************************************************************)
(* Verification model of fashion-finder: shop adapters, adapter registry,  *)
(* relevance scoring, search orchestrator and price monitoring.            *)
(*                                                                         *)
(* Strings are sequences of one-character strings, so that lower(),        *)
(* upper(), split() and the substring test `a in b` are computed the way   *)
(* Python computes them.  The elements "a-ring" and "o-uml" stand for the  *)
(* single characters a-with-ring and o-with-umlaut of the Swedish words in *)
(* the colour table.                                                       *)
(*                                                                         *)
(* Scores are exact rationals: a score value v stands for v / ScoreOne.    *)
(***************************************************************************)
EXTENDS Integers, Sequences, FiniteSets, Bags, TLC

----------------------------------------------------------------------------
(* Python values *)

\* Python's None (for Optional[str] fields it is a value that is no string).
None == <<"<None>">>

\* bool(x) of an Optional[str]: None and "" are falsy.
Truthy(x) == x # None /\ x # <<>>

\* (x or "")
OrEmpty(x) == IF Truthy(x) THEN x ELSE <<>>

UpperChars ==
    <<"A","B","C","D","E","F","G","H","I","J","K","L","M",
      "N","O","P","Q","R","S","T","U","V","W","X","Y","Z">>

LowerChars ==
    <<"a","b","c","d","e","f","g","h","i","j","k","l","m",
      "n","o","p","q","r","s","t","u","v","w","x","y","z">>

\* every character of the model's strings
Chars ==
    {UpperChars[i] : i \in DOMAIN UpperChars} \cup {LowerChars[i] : i \in DOMAIN LowerChars}
        \cup {" ", "-", "a-ring", "o-uml"}

LowerMap ==
    [c \in Chars |->
        IF \E i \in DOMAIN UpperChars : UpperChars[i] = c
        THEN LowerChars[CHOOSE i \in DOMAIN UpperChars : UpperChars[i] = c]
        ELSE c]

UpperMap ==
    [c \in Chars |->
        IF \E i \in DOMAIN LowerChars : LowerChars[i] = c
        THEN UpperChars[CHOOSE i \in DOMAIN LowerChars : LowerChars[i] = c]
        ELSE c]

\* str.lower()
Lower(s) == [i \in 1..Len(s) |-> LowerMap[s[i]]]

\* str.upper()
Upper(s) == [i \in 1..Len(s) |-> UpperMap[s[i]]]

\* t in s, for strings
IsSubstr(t, s) ==
    \E i \in 0..(Len(s) - Len(t)) : \A j \in 1..Len(t) : s[i + j] = t[j]

\* x in list
InList(x, l) == \E i \in 1..Len(l) : l[i] = x

RECURSIVE SplitFrom(_, _, _)
SplitFrom(s, i, cur) ==
    IF i > Len(s)
    THEN IF cur = <<>> THEN <<>> ELSE <<cur>>
    ELSE IF s[i] = " "
         THEN (IF cur = <<>> THEN <<>> ELSE <<cur>>) \o SplitFrom(s, i + 1, <<>>)
         ELSE SplitFrom(s, i + 1, Append(cur, s[i]))

\* str.split(): the maximal runs of non-blank characters
Split(s) == SplitFrom(s, 1, <<>>)

\* [f(x) for x in l if p(x)] helpers
RECURSIVE FilterLonger(_, _)
FilterLonger(l, n) ==
    IF l = <<>> THEN <<>>
    ELSE (IF Len(Head(l)) > n THEN <<Head(l)>> ELSE <<>>) \o FilterLonger(Tail(l), n)

\* a + " " + b
Join2(a, b) == a \o <<" ">> \o b

MaxOf(S) == CHOOSE m \in S : \A n \in S : n <= m

MinOf(a, b) == IF a <= b THEN a ELSE b

RECURSIVE Factorial(_)
Factorial(n) == IF n <= 1 THEN 1 ELSE n * Factorial(n - 1)

----------------------------------------------------------------------------
(* The strings the inputs are drawn from *)

sNikeHoodieBlack == <<"N","i","k","e"," ","h","o","o","d","i","e"," ","b","l","a","c","k">>
sA == <<"a">>
sAdidasShoes == <<"a","d","i","d","a","s"," "," ","s","h","o","e","s">>
sXHoodie == <<"x"," ","H","o","o","d","i","e">>
sNameNike == <<"N","i","k","e"," ","S","p","o","r","t","s","w","e","a","r"," ","T","e","c","h"," ","F","l","e","e","c","e"," ","H","o","o","d","i","e"," ","B","l","a","c","k">>
sNameCrew == <<"C","r","e","w"," ","N","e","c","k"," ","S","w","e","a","t","s","h","i","r","t">>
sNike == <<"N","i","k","e">>
sNikeUpper == <<"N","I","K","E">>
sNikeSportswear == <<"N","i","k","e"," ","S","p","o","r","t","s","w","e","a","r">>
sAdidas == <<"a","d","i","d","a","s">>
sDescHooded == <<"b","l","a","c","k"," ","h","o","o","d","e","d"," ","t","o","p">>
sHoodie == <<"h","o","o","d","i","e">>
sHooded == <<"h","o","o","d","e","d">>
sShoes == <<"S","h","o","e","s">>
sBlack == <<"B","l","a","c","k">>
sNavy == <<"n","a","v","y">>
sBlue == <<"B","l","u","e">>
sTech == <<"t","e","c","h">>
sCasual == <<"C","a","s","u","a","l">>
sM == <<"M">>
sL == <<"L">>
sXl == <<"x","l">>
sXL == <<"X","L">>

----------------------------------------------------------------------------
(* Relevance scoring: ShopAdapter.calculate_relevance *)

\* Most style tags a query of the model carries.
MaxStyleTags == 2

QueryStrings == {sNikeHoodieBlack, sA, sAdidasShoes, sXHoodie}

\* query_terms = [t.strip() for t in query_lower.split() if len(t.strip()) > 1]
query_terms(q) == FilterLonger(Split(Lower(q.query)), 1)

MaxQueryTerms == MaxOf({Len(FilterLonger(Split(Lower(s)), 1)) : s \in QueryStrings})

\* Scores are counted in units of 1 / ScoreOne; Python's 0.35 is 35 * ScoreUnit.
ScoreUnit == Factorial(MaxQueryTerms) * Factorial(MaxStyleTags)

ScoreOne == 100 * ScoreUnit

WBrandPartial == 25

WBrandExact_as_partial == WBrandPartial

WBrandExact == 35
WBrandTerm == 30
WBrandText == 10
WCategory == 25
WCategoryTerm == 20
WTerms == 20
WColor == 10
WColorTerm == 8
WStyle == 5
WSize == 5

\* category_synonyms.get(k, [k])
category_synonyms(k) ==
    CASE k = <<"h","o","o","d","i","e">> ->
           <<<<"h","o","o","d","i","e">>,
             <<"h","o","o","d","e","d">>,
             <<"p","u","l","l","o","v","e","r">>,
             <<"s","w","e","a","t","s","h","i","r","t">>>>
      [] k = <<"j","a","c","k","e","t">> ->
           <<<<"j","a","c","k","e","t">>,
             <<"c","o","a","t">>,
             <<"b","l","a","z","e","r">>,
             <<"p","a","r","k","a">>,
             <<"b","o","m","b","e","r">>>>
      [] k = <<"p","a","n","t","s">> ->
           <<<<"p","a","n","t","s">>,
             <<"t","r","o","u","s","e","r","s">>,
             <<"j","e","a","n","s">>,
             <<"c","h","i","n","o","s">>>>
      [] k = <<"s","h","i","r","t">> ->
           <<<<"s","h","i","r","t">>,
             <<"b","l","o","u","s","e">>,
             <<"t","o","p">>,
             <<"t","e","e">>,
             <<"t","-","s","h","i","r","t">>>>
      [] k = <<"s","h","o","e","s">> ->
           <<<<"s","h","o","e","s">>,
             <<"s","n","e","a","k","e","r","s">>,
             <<"b","o","o","t","s">>,
             <<"t","r","a","i","n","e","r","s">>,
             <<"f","o","o","t","w","e","a","r">>>>
      [] k = <<"s","w","e","a","t","e","r">> ->
           <<<<"s","w","e","a","t","e","r">>,
             <<"j","u","m","p","e","r">>,
             <<"k","n","i","t">>,
             <<"c","a","r","d","i","g","a","n">>,
             <<"p","u","l","l","o","v","e","r">>>>
      [] k = <<"d","r","e","s","s">> ->
           <<<<"d","r","e","s","s">>,
             <<"g","o","w","n">>>>
      [] k = <<"s","k","i","r","t">> ->
           <<<<"s","k","i","r","t">>>>
      [] k = <<"s","h","o","r","t","s">> ->
           <<<<"s","h","o","r","t","s">>>>
      [] OTHER -> <<k>>
\* color_synonyms.get(k, [k])
color_synonyms(k) ==
    CASE k = <<"b","l","a","c","k">> ->
           <<<<"b","l","a","c","k">>,
             <<"n","o","i","r">>,
             <<"s","v","a","r","t">>>>
      [] k = <<"w","h","i","t","e">> ->
           <<<<"w","h","i","t","e">>,
             <<"c","r","e","a","m">>,
             <<"i","v","o","r","y">>,
             <<"v","i","t">>>>
      [] k = <<"b","l","u","e">> ->
           <<<<"b","l","u","e">>,
             <<"n","a","v","y">>,
             <<"c","o","b","a","l","t">>,
             <<"b","l","a-ring">>>>
      [] k = <<"r","e","d">> ->
           <<<<"r","e","d">>,
             <<"c","r","i","m","s","o","n">>,
             <<"r","o-uml","d">>>>
      [] k = <<"g","r","e","e","n">> ->
           <<<<"g","r","e","e","n">>,
             <<"o","l","i","v","e">>,
             <<"g","r","o-uml","n">>>>
      [] k = <<"g","r","a","y">> ->
           <<<<"g","r","a","y">>,
             <<"g","r","e","y">>,
             <<"c","h","a","r","c","o","a","l">>,
             <<"g","r","a-ring">>>>
      [] k = <<"b","r","o","w","n">> ->
           <<<<"b","r","o","w","n">>,
             <<"t","a","n">>,
             <<"c","a","m","e","l">>,
             <<"b","r","u","n">>>>
      [] k = <<"p","i","n","k">> ->
           <<<<"p","i","n","k">>,
             <<"r","o","s","e">>,
             <<"r","o","s","a">>>>
      [] k = <<"b","e","i","g","e">> ->
           <<<<"b","e","i","g","e">>,
             <<"s","a","n","d">>,
             <<"k","h","a","k","i">>>>
      [] OTHER -> <<k>>

\* product_text = f"{product_name_lower} {product_brand_lower} {product_desc_lower} {product_category_lower}"
product_text(pn, pb, pd, pc) == Join2(Join2(Join2(pn, pb), pd), pc)

\* max of f over the terms, 0.0 for no term
MaxOverTerms(terms, f(_)) ==
    IF terms = <<>> THEN 0 ELSE MaxOf({0} \cup {f(terms[i]) : i \in 1..Len(terms)})

\* 1. Brand matching (0.35 max); pb: product_brand_lower, text: product_text
brand_score(q, terms, pb, text) ==
    LET ofTerm(term) ==
            IF IsSubstr(term, pb) THEN WBrandTerm * ScoreUnit
            ELSE IF pb # <<>> /\ IsSubstr(term, text) THEN WBrandText * ScoreUnit
            ELSE 0
    IN  IF Truthy(q.brand)
        THEN LET qb == Lower(q.brand)
             IN  IF pb # <<>>
                 THEN IF qb = pb THEN WBrandExact * ScoreUnit
                      ELSE IF IsSubstr(qb, pb) \/ IsSubstr(pb, qb)
                           THEN WBrandPartial * ScoreUnit
                           ELSE 0
                 ELSE 0
        ELSE MaxOverTerms(terms, ofTerm)

\* any(syn in a or syn in b for syn in synonyms)
AnySynonymIn(synonyms, a, b) ==
    \E i \in 1..Len(synonyms) : IsSubstr(synonyms[i], a) \/ IsSubstr(synonyms[i], b)

\* 2. Category/type matching (0.25 max); pn: product_name_lower, pc: product_category_lower
category_score(q, terms, pn, pc) ==
    LET ofTerm(term) ==
            IF AnySynonymIn(category_synonyms(term), pn, pc)
            THEN WCategoryTerm * ScoreUnit ELSE 0
    IN  IF Truthy(q.category)
        THEN IF AnySynonymIn(category_synonyms(Lower(q.category)), pn, pc)
             THEN WCategory * ScoreUnit ELSE 0
        ELSE MaxOverTerms(terms, ofTerm)

\* sum(1 for x in l if x in text)
RECURSIVE CountIn(_, _)
CountIn(l, text) ==
    IF l = <<>> THEN 0
    ELSE (IF IsSubstr(Head(l), text) THEN 1 ELSE 0) + CountIn(Tail(l), text)

\* 3. Query term matching (0.20 max): (matched_terms / len(query_terms)) * 0.20
term_score(terms, text) ==
    IF terms # <<>>
    THEN (CountIn(terms, text) * WTerms * ScoreUnit) \div Len(terms)
    ELSE 0

\* 4. Color matching (0.10 max); pcol: product_color_lower, pn: product_name_lower
color_score(q, terms, pcol, pn) ==
    LET ofTerm(term) == IF IsSubstr(term, pcol) THEN WColorTerm * ScoreUnit ELSE 0
    IN  IF Truthy(q.color)
        THEN IF AnySynonymIn(color_synonyms(Lower(q.color)), pcol, pn)
             THEN WColor * ScoreUnit ELSE 0
        ELSE MaxOverTerms(terms, ofTerm)

\* [s.lower() for s in l]
LowerAll(l) == [i \in 1..Len(l) |-> Lower(l[i])]

\* [s.upper() for s in l]
UpperAll(l) == [i \in 1..Len(l) |-> Upper(l[i])]

\* 5. Style tags matching (0.05 max): (matching_tags / len(style_tags)) * 0.05
style_score(q, text) ==
    IF q.style_tags # <<>>
    THEN (CountIn(LowerAll(q.style_tags), text) * WStyle * ScoreUnit)
             \div Len(q.style_tags)
    ELSE 0

size_score_subtracted(p, q) ==
    IF Truthy(q.size) /\ p.sizes # <<>> /\ InList(Upper(q.size), UpperAll(p.sizes))
    THEN 0 - WSize * ScoreUnit ELSE 0

\* 6. Size availability (0.05 max)
size_score(p, q) ==
    IF Truthy(q.size) /\ p.sizes # <<>> /\ InList(Upper(q.size), UpperAll(p.sizes))
    THEN WSize * ScoreUnit ELSE 0

\* the score of product p against query q; return min(score, 1.0)
calculate_relevance(p, q) ==
    LET terms == query_terms(q)
        product_name_lower == Lower(OrEmpty(p.name))
        product_brand_lower == Lower(OrEmpty(p.brand))
        product_desc_lower == Lower(OrEmpty(p.description))
        product_category_lower == Lower(OrEmpty(p.category))
        product_color_lower == Lower(OrEmpty(p.color))
        text == product_text(product_name_lower, product_brand_lower,
                             product_desc_lower, product_category_lower)
    IN  MinOf(brand_score(q, terms, product_brand_lower, text)
                  + category_score(q, terms, product_name_lower, product_category_lower)
                  + term_score(terms, text)
                  + color_score(q, terms, product_color_lower, product_name_lower)
                  + style_score(q, text)
                  + size_score(p, q),
              ScoreOne)

----------------------------------------------------------------------------
(* State *)

VARIABLES
    rel_product,    \* the ProductResult handed to calculate_relevance
    rel_query,      \* the SearchQuery handed to calculate_relevance
    rel_pc,         \* "input": not scored yet; "scored": relevance_score assigned
    files,          \* config_dir: the YAML document of each shop's file
    _configs,       \* ShopRegistry._configs, a dict in insertion order
    _adapters,      \* ShopRegistry._adapters: shop id -> adapter, or NoAdapter
    constructed,    \* history: how many adapter objects were built per shop id
    edits,          \* history: how many times a file of config_dir was rewritten
    reg_ret,        \* the last registry call and what it returned
    last_loaded,    \* history: the files as the last load_configs read them
    _watchlist,     \* watchlist._watchlist: the entries, entry i under id i
    shop_price,     \* the price each shop's product page shows now
    checks,         \* what check_all_items returned in this monitoring cycle
    notifications,  \* what process_price_checks returned in this cycle
    mon_pc,         \* the monitoring cycle: "idle", "checked", "notified"
    ad_setup,       \* the adapter under study: its class and its feed settings
    site,           \* the document the shop serves now
    _products,      \* FeedAdapter._products, the in-memory catalog
    imported,       \* has an import_feed of this adapter completed?
    ad_tasks,       \* the adapter calls waiting for the network, a bag
    ad_ret,         \* the last adapter call that completed and its result
    sr_shops,       \* the shops the registry has an adapter for
    sr_request,     \* the search request being served
    sr_adapters,    \* search_products: the target adapters, in order
    sr_tasks,       \* search_products: what each search_shop task has done
    sr_searched,    \* what each adapter.search did (returned a list or raised)
    sr_costs,       \* search_products: what each add_costs task has done
    all_results,    \* search_products: the flattened candidate list
    sr_response,    \* the response of search_products
    sr_pc,          \* search_products: "idle", "gathering", "costing", "responded"
    api_key,        \* CostCalculator.api_key: is a rate-provider key configured?
    _cached_rates,  \* CostCalculator._cached_rates: (from, to) -> rate
    cc_product,     \* the ProductResult handed to calculate_total_cost
    cc_doc,         \* the YAML document of the product's shop
    cc_config,      \* the ShopConfig _parse_config made of it
    cc_ret,         \* the last calculator call: its result and what it went through
    cc_runs,        \* history: how many calculator calls were made
    ba_items,       \* check_all_items: the list of watch entries it was given
    ba_pattern,     \* what the adapters do for these entries
    ba_i,           \* check_all_items: i, where the current batch starts
    ba_tasks,       \* check_all_items: the check_price tasks of the gather
    ba_results,     \* check_all_items: results
    ba_started,     \* history: how many check_price calls each entry has had
    ba_sleeps,      \* history: how many pacing delays have elapsed
    ba_pc,          \* check_all_items: "loop", "gathering", "sleeping", "returned"
    rate_calls,     \* the get_exchange_rate calls waiting for the rate provider
    rate_log,       \* history: the pair and the rate of each call that returned
    _browser,       \* PlaywrightScraper._browser: 0 for None, or a browser
    _context,       \* PlaywrightScraper._context: None, or a context of a browser
    pw_searches,    \* where each search on the instance is
    pw_launched,    \* history: how many browsers were launched
    pw_contexts,    \* history: how many contexts were created
    pw_lost,        \* history: the browsers that have disconnected
    fc_costs,       \* the cost fields of each record of the feed catalog
    fc_searches     \* the searches served over the feed adapter

relVars == <<rel_product, rel_query, rel_pc>>

regVars == <<files, _configs, _adapters, constructed, edits, reg_ret, last_loaded>>

monVars == <<_watchlist, shop_price, checks, notifications, mon_pc>>

adVars == <<ad_setup, site, _products, imported, ad_tasks, ad_ret>>

srVars == <<sr_shops, sr_request, sr_adapters, sr_tasks, sr_searched, sr_costs,
            all_results, sr_response, sr_pc>>

ccVars == <<api_key, _cached_rates, cc_product, cc_doc, cc_config, cc_ret, cc_runs>>

baVars == <<ba_items, ba_pattern, ba_i, ba_tasks, ba_results, ba_started, ba_sleeps, ba_pc>>

mmVars == <<rate_calls, rate_log>>

pwVars == <<_browser, _context, pw_searches, pw_launched, pw_contexts, pw_lost>>

fcVars == <<fc_costs, fc_searches>>

vars == <<relVars, regVars, monVars, adVars, srVars, ccVars,
          baVars, mmVars, pwVars, fcVars>>

\* what an action of one component leaves alone in the others
RelFrame == UNCHANGED <<regVars, monVars, adVars, srVars, ccVars,
                         baVars, mmVars, pwVars, fcVars>>

RegFrame == UNCHANGED <<relVars, monVars, adVars, srVars, ccVars,
                         baVars, mmVars, pwVars, fcVars>>

MonFrame == UNCHANGED <<relVars, regVars, adVars, srVars, ccVars,
                         baVars, mmVars, pwVars, fcVars>>

AdFrame == UNCHANGED <<relVars, regVars, monVars, srVars, ccVars,
                        baVars, mmVars, pwVars, fcVars>>

SrFrame == UNCHANGED <<relVars, regVars, monVars, adVars, ccVars,
                        baVars, mmVars, pwVars, fcVars>>

CcFrame == UNCHANGED <<relVars, regVars, monVars, adVars, srVars,
                        baVars, mmVars, pwVars, fcVars>>

BaFrame == UNCHANGED <<relVars, regVars, monVars, adVars, srVars, ccVars,
                       mmVars, pwVars, fcVars>>

MmFrame == UNCHANGED <<relVars, regVars, monVars, adVars, srVars,
                       baVars, pwVars, fcVars>>

PwFrame == UNCHANGED <<relVars, regVars, monVars, adVars, srVars, ccVars,
                       baVars, mmVars, fcVars>>

FcFrame == UNCHANGED <<relVars, regVars, monVars, srVars, ccVars,
                       baVars, mmVars, pwVars>>

\* style_tags: list[str], at most MaxStyleTags entries
StyleTagLists == UNION {[1..n -> {sTech, sCasual}] : n \in 0..MaxStyleTags}

RelProducts ==
    [name : {sNameNike, sNameCrew},
     brand : {None, sNike, sNikeSportswear, sAdidas},
     description : {None, sDescHooded},
     category : {None, sHoodie},
     color : {None, sBlack},
     sizes : {<<>>, <<sM, sL>>},
     relevance_score : {0}]

RelQueries ==
    [query : QueryStrings,
     brand : {None, sNike},
     category : {None, sHoodie},
     color : {None, sBlue},
     style_tags : StyleTagLists,
     size : {None, sM}]

RelInit ==
    /\ rel_product \in RelProducts
    /\ rel_query \in RelQueries
    /\ rel_pc = "input"

\* product.relevance_score = self.calculate_relevance(product, query)
Score ==
    /\ rel_pc = "input"
    /\ rel_product' = [rel_product EXCEPT
                          !.relevance_score = calculate_relevance(rel_product, rel_query)]
    /\ rel_pc' = "scored"
    /\ UNCHANGED rel_query
    /\ RelFrame

RelNext == Score

----------------------------------------------------------------------------
(* Adapter registry: ShopRegistry *)

\* Optional[Decimal]: <<>> is None, <<v>> holds v (money is counted in 1/100)
NoneNum == <<>>

Some(v) == <<v>>

\* Rewrites of configuration files the model follows.
MaxEdits == 1

\* Adapter objects the model lets one shop id accumulate.
MaxConstructions == 2

ShopIds == {"kidsbrandstore_se", "nordic_feed"}

UnknownShop == "unknown_shop"

\* A YAML document is a dict: a function from its keys to their values.
ShippingDoc(rev) ==
    [free_threshold |-> 50000, base_cost |-> IF rev = 1 THEN 4900 ELSE 5900]

GoodDoc(s, rev) ==
    [kind |-> "dict",
     data |-> IF s = "nordic_feed"
              THEN [id |-> s, name |-> s, url |-> "https://shop.example",
                    region |-> "NON_EU", currency |-> "EUR",
                    feed |-> [url |-> "https://shop.example/feed.csv", type |-> "csv"],
                    shipping |-> ShippingDoc(rev)]
              ELSE [id |-> s, name |-> s, url |-> "https://shop.example",
                    region |-> "SE", shipping |-> ShippingDoc(rev)]]

\* a document without the required key "name"
NoNameDoc(s) ==
    [kind |-> "dict", data |-> [id |-> s, url |-> "https://shop.example"]]

\* a file yaml.safe_load raises on
YamlErrorDoc == [kind |-> "yaml_error"]

\* a file yaml.safe_load returns None for
EmptyDoc == [kind |-> "empty"]

\* the contents a shop's file can have, by name
DocNames == {"good_1", "good_2", "no_name", "yaml_error", "empty"}

\* yaml.safe_load of shop s's file when its content is the one named c
SafeLoad(s, c) ==
    CASE c = "good_1" -> GoodDoc(s, 1)
      [] c = "good_2" -> GoodDoc(s, 2)
      [] c = "no_name" -> NoNameDoc(s)
      [] c = "yaml_error" -> YamlErrorDoc
      [] c = "empty" -> EmptyDoc

\* d.get(k, default)
Get(d, k, default) == IF k \in DOMAIN d THEN d[k] ELSE default

EmptyDict == [k \in {} |-> {}]

RegionMembers == {"SE", "EU", "NON_EU"}

\* Decimal(str(d[k])) if d.get(k) else None
DecimalOrNone(d, k) == IF k \in DOMAIN d /\ d[k] # 0 THEN Some(d[k]) ELSE NoneNum

\* data["id"], data["name"], data["url"] raise KeyError when the key is missing
ParseRaises(data) == ~({"id", "name", "url"} \subseteq DOMAIN data)

_parse_config(data) ==
    LET region_str == Get(data, "region", "EU")
        feed == Get(data, "feed", EmptyDict)
        shipping == Get(data, "shipping", EmptyDict)
    IN  [id |-> data["id"],
         name |-> data["name"],
         display_name |-> Get(data, "display_name", data["name"]),
         url |-> data["url"],
         region |-> IF region_str \in RegionMembers THEN region_str ELSE "EU",
         currency |-> Get(data, "currency", "SEK"),
         feed_url |-> Get(feed, "url", "None"),
         feed_type |-> Get(feed, "type", "None"),
         free_shipping_threshold |-> DecimalOrNone(shipping, "free_threshold"),
         base_shipping_cost |-> DecimalOrNone(shipping, "base_cost"),
         ships_to_sweden |-> Get(shipping, "ships_to_sweden", TRUE)]

\* Does the loop body of load_configs store a configuration for this document?
Loads(doc) == doc.kind = "dict" /\ ~ParseRaises(doc.data)

\* Does the loop body of load_configs raise on this document (and print
\* "Error loading ...")?
Fails(doc) == doc.kind = "yaml_error" \/ (doc.kind = "dict" /\ ParseRaises(doc.data))

\* a Python dict kept as the sequence of its items, in insertion order
DictKeys(d) == {d[i].key : i \in 1..Len(d)}

DictHas(d, k) == k \in DictKeys(d)

DictGet(d, k) == d[CHOOSE i \in 1..Len(d) : d[i].key = k].value

\* d[k] = v: a new key goes last, a known key keeps its place
DictSet(d, k, v) ==
    IF DictHas(d, k)
    THEN [i \in 1..Len(d) |-> IF d[i].key = k THEN [key |-> k, value |-> v] ELSE d[i]]
    ELSE Append(d, [key |-> k, value |-> v])

\* the orders config_dir.glob("*.yaml") can yield the files in
GlobOrders ==
    {o \in [1..Cardinality(ShopIds) -> ShopIds] : \A s \in ShopIds : \E i \in DOMAIN o : o[i] = s}

\* the loop of load_configs over the files order[i..], on the dict cfgs
RECURSIVE LoadLoop(_, _, _, _)
LoadLoop(order, i, fs, cfgs) ==
    IF i > Len(order) THEN cfgs
    ELSE LET doc == SafeLoad(order[i], fs[order[i]])
         IN  IF Loads(doc)
             THEN LET config == _parse_config(doc.data)
                  IN  LoadLoop(order, i + 1, fs, DictSet(cfgs, config.id, config))
             ELSE LoadLoop(order, i + 1, fs, cfgs)

NoAdapter == [class |-> "None"]

\* the adapter class get_adapter picks (no class is ever registered in
\* _adapter_classes, so every other shop falls back to FeedAdapter)
AdapterClass(shop_id) ==
    IF shop_id = "zalando_se" THEN "ZalandoAdapter"
    ELSE IF shop_id = "kidsbrandstore_se" THEN "KidsbrandstorePlaywright"
    ELSE "FeedAdapter"

\* adapter_class(config): the n-th adapter object built for the shop
NewAdapter(shop_id, config, n) ==
    [class |-> AdapterClass(shop_id), shop_id |-> shop_id, config |-> config, inst |-> n]

\* Is an adapter cached for shop_id?
Cached(adapters, shop_id) == shop_id \in DOMAIN adapters /\ adapters[shop_id] # NoAdapter

\* get_adapter as a function of the registry: the adapter returned, the new
\* _adapters and the new construction counts
GetAdapterNoCache(shop_id, cfgs, adapters, built) ==
    IF ~DictHas(cfgs, shop_id)
    THEN [value |-> NoAdapter, adapters |-> adapters, built |-> built]
    ELSE LET adapter == NewAdapter(shop_id, DictGet(cfgs, shop_id), built[shop_id] + 1)
         IN  [value |-> adapter,
              adapters |-> [adapters EXCEPT ![shop_id] = adapter],
              built |-> [built EXCEPT ![shop_id] = @ + 1]]

GetAdapter(shop_id, cfgs, adapters, built) ==
    IF Cached(adapters, shop_id)
    THEN [value |-> adapters[shop_id], adapters |-> adapters, built |-> built]
    ELSE IF ~DictHas(cfgs, shop_id)
    THEN [value |-> NoAdapter, adapters |-> adapters, built |-> built]
    ELSE LET adapter == NewAdapter(shop_id, DictGet(cfgs, shop_id), built[shop_id] + 1)
         IN  [value |-> adapter,
              adapters |-> [adapters EXCEPT ![shop_id] = adapter],
              built |-> [built EXCEPT ![shop_id] = @ + 1]]

\* the loop of get_all_adapters over the keys of _configs
RECURSIVE GetAllLoop(_, _, _, _, _)
GetAllLoop(cfgs, i, adapters, built, acc) ==
    IF i > Len(cfgs) THEN [value |-> acc, adapters |-> adapters, built |-> built]
    ELSE LET r == GetAdapter(cfgs[i].key, cfgs, adapters, built)
         IN  GetAllLoop(cfgs, i + 1, r.adapters, r.built,
                        IF r.value # NoAdapter THEN Append(acc, r.value) ELSE acc)

RegInit ==
    /\ files \in [ShopIds -> DocNames]
    /\ _configs = <<>>
    /\ _adapters = [s \in ShopIds |-> NoAdapter]
    /\ constructed = [s \in ShopIds |-> 0]
    /\ edits = 0
    /\ reg_ret = [op |-> "none"]
    /\ last_loaded = <<>>

\* a shop's configuration file is rewritten on disk
EditFile ==
    /\ edits < MaxEdits
    /\ \E s \in ShopIds : \E c \in DocNames :
           /\ c # files[s]
           /\ files' = [files EXCEPT ![s] = c]
    /\ edits' = edits + 1
    /\ UNCHANGED <<_configs, _adapters, constructed, reg_ret, last_loaded>>
    /\ RegFrame

\* a variant of load_configs that also empties the adapter cache
load_configs_fresh ==
    /\ \E order \in GlobOrders :
           LET after == LoadLoop(order, 1, files, _configs)
           IN  /\ _configs' = after
               /\ reg_ret' = [op |-> "load_configs",
                              value |-> LoadLoop(order, 1, files, <<>>),
                              failed |-> {s \in ShopIds : Fails(SafeLoad(s, files[s]))},
                              before |-> [configs |-> _configs, adapters |-> _adapters],
                              repeated |-> last_loaded = files]
    /\ _adapters' = [s \in ShopIds |-> NoAdapter]
    /\ last_loaded' = files
    /\ UNCHANGED <<files, constructed, edits>>
    /\ RegFrame

\* ShopRegistry.load_configs(); the call is recorded with the registry as it
\* was before and with whether the files are as the last call read them
load_configs ==
    /\ \E order \in GlobOrders :
           LET after == LoadLoop(order, 1, files, _configs)
           IN  /\ _configs' = after
               /\ reg_ret' = [op |-> "load_configs",
                              value |-> LoadLoop(order, 1, files, <<>>),
                              failed |-> {s \in ShopIds : Fails(SafeLoad(s, files[s]))},
                              before |-> [configs |-> _configs, adapters |-> _adapters],
                              repeated |-> last_loaded = files]
    /\ last_loaded' = files
    /\ UNCHANGED <<files, _adapters, constructed, edits>>
    /\ RegFrame

\* ShopRegistry.get_adapter(shop_id)
get_adapter ==
    \E shop_id \in ShopIds \cup {UnknownShop} :
        LET r == GetAdapter(shop_id, _configs, _adapters, constructed)
        IN  /\ \A s \in ShopIds : r.built[s] <= MaxConstructions
            /\ _adapters' = r.adapters
            /\ constructed' = r.built
            /\ reg_ret' = [op |-> "get_adapter", shop_id |-> shop_id, value |-> r.value]
            /\ UNCHANGED <<files, _configs, edits, last_loaded>>
            /\ RegFrame

\* ShopRegistry.get_all_adapters()
get_all_adapters ==
    LET r == GetAllLoop(_configs, 1, _adapters, constructed, <<>>)
    IN  /\ \A s \in ShopIds : r.built[s] <= MaxConstructions
        /\ _adapters' = r.adapters
        /\ constructed' = r.built
        /\ reg_ret' = [op |-> "get_all_adapters", value |-> r.value]
        /\ UNCHANGED <<files, _configs, edits, last_loaded>>
        /\ RegFrame

RegNext == EditFile \/ load_configs \/ get_adapter \/ get_all_adapters

----------------------------------------------------------------------------
(* Price monitoring: watchlist, PriceChecker, process_price_checks *)

\* Watch entries the model lets the watchlist hold.
MaxEntries == 2

\* prices, in 1/100 of the currency unit
Prices == {8000, 10000, 12000}

\* the product pages a watch entry can point at; the last one names a shop
\* no configuration exists for
WatchedProducts ==
    {[shop_id |-> "nordic_feed", product_id |-> "p1"],
     [shop_id |-> "kidsbrandstore_se", product_id |-> "p2"],
     [shop_id |-> UnknownShop, product_id |-> "p3"]}

\* the products a configured shop lists, each with a price
ListedProducts == {p \in WatchedProducts : p.shop_id \in ShopIds}

\* the target prices a request can carry (Optional[float])
TargetPrices == {NoneNum, Some(9000)}

\* add_to_watchlist: is the request a duplicate of an entry?
IsDuplicate(wl, user_email, product) ==
    \E i \in 1..Len(wl) :
        /\ wl[i].user_email = user_email
        /\ wl[i].product_id = product.product_id
        /\ wl[i].shop_id = product.shop_id

\* the item add_to_watchlist stores under the next id (product name and
\* urls, which nothing reads, are left out)
NewItem(item_id, user_email, product, current_price, target_price, notify_any_drop) ==
    [id |-> item_id,
     user_email |-> user_email,
     product_id |-> product.product_id,
     shop_id |-> product.shop_id,
     price_at_add |-> current_price,
     current_price |-> current_price,
     lowest_price_seen |-> current_price,
     currency |-> "SEK",
     target_price |-> target_price,
     notify_any_drop |-> notify_any_drop,
     is_active |-> TRUE]

NoCheck == [watchlist_id |-> 0]

\* a variant of the outcome that measures the drop from the price at add
PriceCheck_since_add(item, current_price) ==
    LET old_price == item.price_at_add
        new_price == current_price
        target_price == item.target_price
    IN  [watchlist_id |-> item.id,
         product_id |-> item.product_id,
         shop_id |-> item.shop_id,
         old_price |-> old_price,
         new_price |-> new_price,
         currency |-> item.currency,
         price_dropped |-> new_price < old_price,
         drop_amount |-> old_price - new_price,
         target_price_reached |-> target_price # NoneNum /\ new_price <= target_price[1]]

\* check_price once adapter.check_availability returned current_price
PriceCheck_of(item, current_price) ==
    LET old_price == item.current_price
        new_price == current_price
        target_price == item.target_price
    IN  [watchlist_id |-> item.id,
         product_id |-> item.product_id,
         shop_id |-> item.shop_id,
         old_price |-> old_price,
         new_price |-> new_price,
         currency |-> item.currency,
         price_dropped |-> new_price < old_price,
         drop_amount |-> old_price - new_price,
         target_price_reached |-> target_price # NoneNum /\ new_price <= target_price[1]]

\* what the adapter does for one check: "no_adapter" (get_adapter returned None),
\* "raises" (check_availability raised), "no_price" (it returned no price), "price"
AdapterOutcomes(item) ==
    IF item.shop_id \in ShopIds THEN {"raises", "no_price", "price"} ELSE {"no_adapter"}

\* PriceChecker.check_price(item): a PriceCheck, or NoCheck for None
check_price(item, outcome, prices) ==
    IF outcome = "price"
    THEN PriceCheck_of(item, prices[[shop_id |-> item.shop_id, product_id |-> item.product_id]])
    ELSE NoCheck

\* check_all_items: the PriceChecks of the items, in order, None results left out
RECURSIVE CollectChecks(_, _, _, _)
CollectChecks(items, outcomes, prices, i) ==
    IF i > Len(items) THEN <<>>
    ELSE LET check == check_price(items[i], outcomes[i], prices)
         IN  (IF check # NoCheck THEN <<check>> ELSE <<>>)
                 \o CollectChecks(items, outcomes, prices, i + 1)

NoDecision == "none"

\* the decision process_price_checks takes for one check: "target", "drop" or none
notification_type_drop_first(check, item) ==
    IF check.price_dropped /\ item.notify_any_drop THEN "drop"
    ELSE IF check.target_price_reached THEN "target"
    ELSE NoDecision

notification_type(check, item) ==
    IF check.target_price_reached THEN "target"
    ELSE IF check.price_dropped /\ item.notify_any_drop THEN "drop"
    ELSE NoDecision

\* the loop of process_price_checks: one NotificationResult per alert it has
\* the notifier send (delivered or not), with the entry and the kind of alert
RECURSIVE ProcessLoop(_, _, _)
ProcessLoop(cs, watchlist_items, i) ==
    IF i > Len(cs) THEN <<>>
    ELSE LET check == cs[i]
             known == check.watchlist_id \in 1..Len(watchlist_items)
             item == watchlist_items[check.watchlist_id]
             rest == ProcessLoop(cs, watchlist_items, i + 1)
         IN  IF ~known THEN rest
             ELSE IF item.user_email = "" THEN rest
             ELSE IF notification_type(check, item) = NoDecision THEN rest
             ELSE <<[watchlist_id |-> check.watchlist_id,
                     type |-> notification_type(check, item)]>> \o rest

\* update_item_price(item_id, new_price)
update_item_price(item, new_price) ==
    [item EXCEPT !.current_price = new_price,
                 !.lowest_price_seen = IF new_price < @ THEN new_price ELSE @]

MonInit ==
    /\ _watchlist = <<>>
    /\ shop_price \in [ListedProducts -> Prices]
    /\ checks = <<>>
    /\ notifications = <<>>
    /\ mon_pc = "idle"

\* the price a request to watch the product carries: the price the shop lists
\* when the request is made (a shop unknown to the registry lists none)
PriceAtAdd(product, prices) ==
    IF product \in ListedProducts THEN prices[product] ELSE 10000

\* POST /watchlist
add_to_watchlist ==
    /\ mon_pc = "idle"
    /\ Len(_watchlist) < MaxEntries
    /\ \E product \in WatchedProducts, target_price \in TargetPrices,
          notify_any_drop \in BOOLEAN :
           /\ ~IsDuplicate(_watchlist, "user@example.com", product)
           /\ _watchlist' = Append(_watchlist,
                  NewItem(Len(_watchlist) + 1, "user@example.com", product,
                          PriceAtAdd(product, shop_price), target_price, notify_any_drop))
    /\ UNCHANGED <<shop_price, checks, notifications>>
    /\ UNCHANGED mon_pc
    /\ MonFrame

\* a shop changes the price of a product
ShopReprices ==
    /\ mon_pc = "idle"
    /\ \E product \in ListedProducts, price \in Prices :
           /\ price # shop_price[product]
           /\ shop_price' = [shop_price EXCEPT ![product] = price]
    /\ UNCHANGED <<_watchlist, checks, notifications, mon_pc>>
    /\ MonFrame

\* PriceChecker.check_all_items(items) over the entries of the watchlist
check_all_items ==
    /\ mon_pc = "idle"
    /\ _watchlist # <<>>
    /\ \E outcomes \in [1..Len(_watchlist) -> {"no_adapter", "raises", "no_price", "price"}] :
           /\ \A i \in 1..Len(_watchlist) : outcomes[i] \in AdapterOutcomes(_watchlist[i])
           /\ checks' = CollectChecks(_watchlist, outcomes, shop_price, 1)
    /\ mon_pc' = "checked"
    /\ UNCHANGED <<_watchlist, shop_price, notifications>>
    /\ MonFrame

\* process_price_checks(checks, watchlist_items)
process_price_checks ==
    /\ mon_pc = "checked"
    /\ notifications' = ProcessLoop(checks, _watchlist, 1)
    /\ mon_pc' = "notified"
    /\ UNCHANGED <<_watchlist, shop_price, checks>>
    /\ MonFrame

\* update_prices_via_api(checks): one POST /watchlist/{id}/update-price per
\* check; a request that fails or is answered with another status than 200
\* is recorded as unsuccessful and leaves the entry as it was
update_prices ==
    /\ mon_pc = "notified"
    /\ \E posted \in [1..Len(checks) -> BOOLEAN] :
           _watchlist' =
               [i \in 1..Len(_watchlist) |->
                   IF \E k \in 1..Len(checks) : checks[k].watchlist_id = i /\ posted[k]
                   THEN update_item_price(_watchlist[i],
                            checks[CHOOSE k \in 1..Len(checks) :
                                       checks[k].watchlist_id = i].new_price)
                   ELSE _watchlist[i]]
    /\ checks' = <<>>
    /\ notifications' = <<>>
    /\ mon_pc' = "idle"
    /\ UNCHANGED shop_price
    /\ MonFrame

MonNext ==
    add_to_watchlist \/ ShopReprices \/ check_all_items \/ process_price_checks
        \/ update_prices

----------------------------------------------------------------------------
(* Shop adapters: FeedAdapter, ScraperAdapter, PlaywrightScraper and its     *)
(* KidsbrandstorePlaywright, ZalandoAdapter                                  *)

\* Adapter calls the model lets wait for the network at the same time.
MaxInFlight == 2

NoUrl == "None"

FeedUrl == "https://shop.example/feed"

\* the adapters studied: the class and, for a feed adapter, config.feed_url
\* and config.feed_type
AdapterSetups ==
    {[class |-> "FeedAdapter", feed_url |-> FeedUrl, feed_type |-> "csv"],
     [class |-> "FeedAdapter", feed_url |-> FeedUrl, feed_type |-> "xml"],
     [class |-> "FeedAdapter", feed_url |-> NoUrl, feed_type |-> "None"],
     [class |-> "ScraperAdapter", feed_url |-> NoUrl, feed_type |-> "None"],
     [class |-> "KidsbrandstorePlaywright", feed_url |-> NoUrl, feed_type |-> "None"],
     [class |-> "ZalandoAdapter", feed_url |-> NoUrl, feed_type |-> "None"]}

\* The records a document lists (feed rows, or the items of a result page),
\* by the values the adapter's column mapping or selectors find in them.
rowCrew ==
    [id |-> "c1", name |-> sNameCrew, brand |-> sAdidas, price |-> Some(49900),
     category |-> None, color |-> None, sizes |-> <<>>,
     description |-> sDescHooded, gender |-> None]

\* a record without a price
rowNoPrice ==
    [id |-> "x1", name |-> sNameCrew, brand |-> None, price |-> NoneNum,
     category |-> None, color |-> None, sizes |-> <<>>,
     description |-> None, gender |-> None]

rowNike ==
    [id |-> "n1", name |-> sNameNike, brand |-> sNike, price |-> Some(89900),
     category |-> sHoodie, color |-> sBlack, sizes |-> <<sM, sL>>,
     description |-> None, gender |-> None]

\* the documents the shop can serve
SiteNames == {"catalog", "no_valid_records"}

Rows(name) ==
    CASE name = "catalog" -> <<rowCrew, rowNoPrice, rowNike>>
      [] name = "no_valid_records" -> <<rowNoPrice>>

ProductIds == {"c1", "x1", "n1"}

\* what the network does for one request: the document arrives, the request
\* fails (connection error, timeout, error status), or a document arrives
\* that does not have the expected structure
NetOutcomes == {"ok", "error", "malformed"}

NoProduct == [external_id |-> "None"]

\* ProductResult(...): relevance_score defaults to 0.0
ProductResult(external_id, name, brand, price, category, color, sizes, description, gender) ==
    [external_id |-> external_id, name |-> name, brand |-> brand, price |-> price,
     category |-> category, color |-> color, sizes |-> sizes,
     description |-> description, gender |-> gender, relevance_score |-> 0]

\* the search queries of the adapter calls
AdQuery(query, brand, limit) ==
    [query |-> query, brand |-> brand, category |-> None, color |-> None,
     size |-> None, style_tags |-> <<>>, gender |-> None,
     min_price |-> NoneNum, max_price |-> NoneNum, limit |-> limit]

AdQueries ==
    {AdQuery(sNikeHoodieBlack, None, 1), AdQuery(sNikeHoodieBlack, None, 2),
     AdQuery(sAdidasShoes, sAdidas, 2)}

\* l[:n] for n >= 0
Take(l, n) == SubSeq(l, 1, MinOf(n, Len(l)))

\* l.sort(key=lambda p: p.relevance_score, reverse=True) without the sorting
Unsorted(l) == l

\* insert p behind every element whose score is at least p's
RECURSIVE InsertByRelevance(_, _)
InsertByRelevance(sorted, p) ==
    IF sorted = <<>> THEN <<p>>
    ELSE IF Head(sorted).relevance_score >= p.relevance_score
    THEN <<Head(sorted)>> \o InsertByRelevance(Tail(sorted), p)
    ELSE <<p>> \o sorted

\* l.sort(key=lambda p: p.relevance_score, reverse=True): descending, and
\* elements of equal score keep their order
RECURSIVE SortByRelevance(_)
SortByRelevance(l) ==
    IF l = <<>> THEN <<>>
    ELSE InsertByRelevance(SortByRelevance(SubSeq(l, 1, Len(l) - 1)), l[Len(l)])

\* FeedAdapter._map_row_to_product
_map_row_to_product(row) ==
    IF ~Truthy(row.name) \/ row.price = NoneNum THEN NoProduct
    ELSE ProductResult(row.id, row.name, row.brand, row.price[1], row.category,
                       row.color, row.sizes, row.description, row.gender)

\* _parse_csv_feed / _parse_xml_feed: the products of the rows that map to one
RECURSIVE _parse_feed(_)
_parse_feed(rows) ==
    IF rows = <<>> THEN <<>>
    ELSE (IF _map_row_to_product(Head(rows)) # NoProduct
          THEN <<_map_row_to_product(Head(rows))>> ELSE <<>>)
             \o _parse_feed(Tail(rows))

\* {p.external_id: p for p in products}
RECURSIVE CatalogOf(_)
CatalogOf(products) ==
    IF products = <<>> THEN <<>>
    ELSE DictSet(CatalogOf(SubSeq(products, 1, Len(products) - 1)),
                 products[Len(products)].external_id, products[Len(products)])

\* the filters of FeedAdapter.search: does the product stay in the results?
feed_matches(product, query) ==
    LET query_terms_all == Split(Lower(query.query))
        search_text == product_text(Lower(product.name), Lower(OrEmpty(product.brand)),
                                    Lower(OrEmpty(product.description)),
                                    Lower(OrEmpty(product.category)))
    IN  /\ ~(Truthy(query.gender) /\ Truthy(product.gender)
                /\ Lower(query.gender) # Lower(product.gender))
        /\ ~(Truthy(query.category) /\ Truthy(product.category)
                /\ ~IsSubstr(Lower(query.category), Lower(product.category)))
        /\ ~(Truthy(query.brand) /\ Truthy(product.brand)
                /\ ~IsSubstr(Lower(query.brand), Lower(product.brand)))
        /\ ~(Truthy(query.color) /\ Truthy(product.color)
                /\ ~IsSubstr(Lower(query.color), Lower(product.color)))
        /\ ~(query.min_price # NoneNum /\ query.min_price # Some(0)
                /\ product.price < query.min_price[1])
        /\ ~(query.max_price # NoneNum /\ query.max_price # Some(0)
                /\ product.price > query.max_price[1])
        /\ ~(Truthy(query.size) /\ product.sizes # <<>>
                /\ ~InList(Upper(query.size), UpperAll(product.sizes)))
        /\ \E i \in 1..Len(query_terms_all) : IsSubstr(query_terms_all[i], search_text)


\* ScraperAdapter._parse_search_results: a product per item with a name, a
\* price and an id
RECURSIVE ScraperItems(_)
ScraperItems(rows) ==
    IF rows = <<>> THEN <<>>
    ELSE LET row == Head(rows)
         IN  (IF Truthy(row.name) /\ row.price # NoneNum /\ row.price # Some(0)
              THEN <<ProductResult(row.id, row.name, row.brand, row.price[1],
                                   None, None, <<>>, None, None)>>
              ELSE <<>>) \o ScraperItems(Tail(rows))

\* KidsbrandstorePlaywright.extract_products and ZalandoAdapter's article
\* loop: a product per item with a name, its price 0 when none is found
RECURSIVE ListedItems(_, _)
ListedItems(rows, gender) ==
    IF rows = <<>> THEN <<>>
    ELSE LET row == Head(rows)
         IN  (IF Truthy(row.name)
              THEN <<ProductResult(row.id, row.name, row.brand,
                                   IF row.price = NoneNum THEN 0 ELSE row.price[1],
                                   None, None, <<>>, None, gender)>>
              ELSE <<>>) \o ListedItems(Tail(rows), gender)

sKids == <<"k","i","d","s">>

\* The products the adapters build from the documents.  Neither the filters
\* nor calculate_relevance read relevance_score, so both are tabulated over
\* these products as built.
ElementsOf(l) == {l[i] : i \in 1..Len(l)}

BuiltProducts ==
    UNION {ElementsOf(_parse_feed(Rows(name))) \cup ElementsOf(ScraperItems(Rows(name)))
               \cup ElementsOf(ListedItems(Rows(name), None))
               \cup ElementsOf(ListedItems(Rows(name), sKids)) : name \in SiteNames}

RelevanceTable ==
    [query \in AdQueries |-> [product \in BuiltProducts |-> calculate_relevance(product, query)]]

MatchTable ==
    [query \in AdQueries |-> [product \in BuiltProducts |-> feed_matches(product, query)]]

AsBuilt(product) == [product EXCEPT !.relevance_score = 0]

\* product.relevance_score = self.calculate_relevance(product, query)
Scored(product, query) ==
    [product EXCEPT !.relevance_score = RelevanceTable[query][AsBuilt(product)]]

\* the loop of FeedAdapter.search: the catalog after it (the matching records
\* carry this query's score) and the matching records in catalog order
FeedSearchLoop(catalog, query) ==
    LET after == [i \in 1..Len(catalog) |->
                     IF MatchTable[query][AsBuilt(catalog[i].value)]
                     THEN [key |-> catalog[i].key, value |-> Scored(catalog[i].value, query)]
                     ELSE catalog[i]]
        matching == SelectSeq(after, LAMBDA item : MatchTable[query][AsBuilt(item.value)])
    IN  [catalog |-> after, results |-> [i \in 1..Len(matching) |-> matching[i].value]]

ScoreAll(products, query) == [i \in 1..Len(products) |-> Scored(products[i], query)]

\* ScraperAdapter._parse_search_results: the items scored, then sorted
_parse_search_results(rows, query) == SortByRelevance(ScoreAll(ScraperItems(rows), query))

\* extract_products looks at the first min(query.limit * 2, count) items
extract_products(rows, query) == ListedItems(Take(rows, query.limit * 2), sKids)

\* ZalandoAdapter._parse_search_results looks at articles[:query.limit * 2]
zalando_parse_search_results(rows, query) ==
    SortByRelevance(ScoreAll(ListedItems(Take(rows, query.limit * 2), None), query))

\* the outcome of a call: what it returns or that it raises, and the adapter's
\* catalog and import flag after it
Returns(value, catalog, imp) ==
    [outcome |-> "return", value |-> value, catalog |-> catalog, imported |-> imp]

Raises(catalog, imp) ==
    [outcome |-> "raise", value |-> <<>>, catalog |-> catalog, imported |-> imp]

\* FeedAdapter.import_feed; net = "none" says no request is made
feed_import_feed(setup, net, doc, catalog, imp) ==
    IF setup.feed_url = NoUrl THEN Returns(<<>>, catalog, TRUE)
    ELSE IF net = "error" THEN Raises(catalog, imp)
    ELSE IF net = "malformed" /\ setup.feed_type = "xml" THEN Raises(catalog, imp)
    ELSE LET products == IF net = "malformed" THEN <<>> ELSE _parse_feed(Rows(doc))
         IN  Returns(products, CatalogOf(products), TRUE)

\* Does the call wait for the network?
FeedFetches(setup, catalog) == catalog = <<>> /\ setup.feed_url # NoUrl

\* FeedAdapter.search
feed_search(setup, query, net, doc, catalog, imp) ==
    LET loaded == IF catalog = <<>>
                  THEN feed_import_feed(setup, net, doc, catalog, imp)
                  ELSE Returns(<<>>, catalog, imp)
    IN  IF loaded.outcome = "raise" THEN loaded
        ELSE LET found == FeedSearchLoop(loaded.catalog, query)
             IN  Returns(Take(SortByRelevance(found.results), query.limit),
                         found.catalog, loaded.imported)

\* FeedAdapter.get_product
feed_get_product(setup, external_id, net, doc, catalog, imp) ==
    LET loaded == IF catalog = <<>>
                  THEN feed_import_feed(setup, net, doc, catalog, imp)
                  ELSE Returns(<<>>, catalog, imp)
    IN  IF loaded.outcome = "raise" THEN loaded
        ELSE Returns(IF DictHas(loaded.catalog, external_id)
                     THEN <<DictGet(loaded.catalog, external_id)>> ELSE <<>>,
                     loaded.catalog, loaded.imported)

\* ScraperAdapter.search
scraper_search(query, net, doc, catalog, imp) ==
    IF net = "error" THEN Raises(catalog, imp)
    ELSE Returns(Take(_parse_search_results(IF net = "ok" THEN Rows(doc) ELSE <<>>, query),
                      query.limit), catalog, imp)

\* PlaywrightScraper.search
playwright_search(query, net, doc, catalog, imp) ==
    IF net # "ok" THEN Returns(<<>>, catalog, imp)
    ELSE Returns(Take(SortByRelevance(ScoreAll(extract_products(Rows(doc), query), query)),
                      query.limit), catalog, imp)

\* ZalandoAdapter.search
zalando_search(query, net, doc, catalog, imp) ==
    IF net = "error" THEN Returns(<<>>, catalog, imp)
    ELSE Returns(Take(zalando_parse_search_results(IF net = "ok" THEN Rows(doc) ELSE <<>>,
                                                   query), query.limit), catalog, imp)

\* adapter.search(query) of the adapter's class
adapter_search(setup, query, net, doc, catalog, imp) ==
    CASE setup.class = "FeedAdapter" -> feed_search(setup, query, net, doc, catalog, imp)
      [] setup.class = "ScraperAdapter" -> scraper_search(query, net, doc, catalog, imp)
      [] setup.class = "KidsbrandstorePlaywright" ->
             playwright_search(query, net, doc, catalog, imp)
      [] setup.class = "ZalandoAdapter" -> zalando_search(query, net, doc, catalog, imp)

\* ScraperAdapter.get_product: the product page of external_id
scraper_get_product(external_id, net, doc, catalog, imp) ==
    IF net = "error" THEN Raises(catalog, imp)
    ELSE LET rows == IF net = "ok" THEN Rows(doc) ELSE <<>>
             page == SelectSeq(rows, LAMBDA row : row.id = external_id)
         IN  IF page = <<>> \/ ~Truthy(page[1].name) \/ page[1].price = NoneNum
                 \/ page[1].price = Some(0)
             THEN Returns(<<>>, catalog, imp)
             ELSE Returns(<<ProductResult(external_id, page[1].name, None, page[1].price[1],
                                          None, None, <<>>, page[1].description, None)>>,
                          catalog, imp)

\* adapter.get_product(external_id): the product in a list, or an empty list
\* for None
adapter_get_product(setup, external_id, net, doc, catalog, imp) ==
    CASE setup.class = "FeedAdapter" ->
             feed_get_product(setup, external_id, net, doc, catalog, imp)
      [] setup.class = "ScraperAdapter" ->
             scraper_get_product(external_id, net, doc, catalog, imp)
      [] OTHER -> Returns(<<>>, catalog, imp)

\* adapter.import_feed()
adapter_import_feed(setup, net, doc, catalog, imp) ==
    IF setup.class = "FeedAdapter" THEN feed_import_feed(setup, net, doc, catalog, imp)
    ELSE Returns(<<>>, catalog, imp)

\* Does this call of the adapter make a network request?
Fetches(setup, op, catalog) ==
    CASE setup.class = "FeedAdapter" ->
             IF op = "import_feed" THEN setup.feed_url # NoUrl
             ELSE FeedFetches(setup, catalog)
      [] setup.class = "ScraperAdapter" -> op # "import_feed"
      [] OTHER -> op = "search"

\* the calls a caller can make
AdCalls ==
    {[op |-> "search", arg |-> q] : q \in AdQueries}
        \cup {[op |-> "get_product", arg |-> id] : id \in ProductIds}
        \cup {[op |-> "import_feed", arg |-> 0]}

\* the call, run with the network's answer net
RunCall(call, net) ==
    CASE call.op = "search" ->
             adapter_search(ad_setup, call.arg, net, site, _products, imported)
      [] call.op = "get_product" ->
             adapter_get_product(ad_setup, call.arg, net, site, _products, imported)
      [] call.op = "import_feed" ->
             adapter_import_feed(ad_setup, net, site, _products, imported)

\* the call completes: the adapter's state changes and the caller sees the result
Completes(call, after_import, net) ==
    LET r == RunCall(call, net)
    IN  /\ _products' = r.catalog
        /\ imported' = r.imported
        /\ ad_ret' = [op |-> call.op, arg |-> call.arg, outcome |-> r.outcome,
                      value |-> r.value, net |-> net, fetched |-> net # "none",
                      after_import |-> after_import]

AdInit ==
    /\ ad_setup \in AdapterSetups
    /\ site \in SiteNames
    /\ _products = <<>>
    /\ imported = FALSE
    /\ ad_tasks = EmptyBag
    /\ ad_ret = [op |-> "none"]

\* the shop publishes another document
SiteChanges ==
    /\ \E name \in SiteNames : name # site /\ site' = name
    /\ UNCHANGED <<ad_setup, _products, imported, ad_tasks, ad_ret>>
    /\ AdFrame

\* a caller calls search, get_product or import_feed; a call that needs the
\* network waits for it, any other call runs to its end
AdapterCall ==
    /\ \E call \in AdCalls :
           IF Fetches(ad_setup, call.op, _products)
           THEN /\ BagCardinality(ad_tasks) < MaxInFlight
                /\ ad_tasks' = ad_tasks (+) SetToBag({[call |-> call, after_import |-> imported]})
                /\ UNCHANGED <<_products, imported, ad_ret>>
           ELSE /\ Completes(call, imported, "none")
                /\ UNCHANGED ad_tasks
    /\ UNCHANGED <<ad_setup, site>>
    /\ AdFrame

\* the network answers a waiting call, which runs to its end
NetworkAnswers ==
    /\ \E task \in BagToSet(ad_tasks), net \in NetOutcomes :
           /\ Completes(task.call, task.after_import, net)
           /\ ad_tasks' = ad_tasks (-) SetToBag({task})
    /\ UNCHANGED <<ad_setup, site>>
    /\ AdFrame

AdNext == SiteChanges \/ AdapterCall \/ NetworkAnswers

----------------------------------------------------------------------------
(* Cost calculator: core/cost_calculator.py *)

\* decimal.Decimal.  A finite value is the non-negative rational n / d in
\* lowest terms; amounts of money are counted in 1/100 of the currency unit,
\* so Decimal("27.50") is Dec(2750, 1), and a rate is a plain ratio.
\* The default context keeps 28 significant digits: a quotient that has no
\* finite decimal expansion is rounded, and so is everything computed from
\* it.  Such a value is marked inexact (e): it stands for n / d give or take
\* the context's rounding, which is far below 1/100 but decides which way a
\* value that lies exactly on a rounding tie or on a threshold goes.
\* Infinity is what Decimal(str(rate)) makes of a rate the provider's JSON
\* gives as 1e999 or Infinity.  InvalidOperation stands for the exception an
\* operation signals: every later operation of the computation passes it on.
RECURSIVE GCD(_, _)
GCD(a, b) == IF b = 0 THEN a ELSE GCD(b, a % b)

Dec(n, d) == [n |-> n \div GCD(n, d), d |-> d \div GCD(n, d), e |-> FALSE]

Inexact(x) == [x EXCEPT !.e = TRUE]

Infinity == [n |-> 1, d |-> 0, e |-> FALSE]

InvalidOperation == [n |-> 0, d |-> 0, e |-> FALSE]

Zero == Dec(0, 1)

One == Dec(1, 1)

IsFinite(x) == x.d # 0

\* does n / d have a finite decimal expansion (d a product of 2s and 5s)?
RECURSIVE Terminates(_)
Terminates(d) ==
    IF d % 2 = 0 THEN Terminates(d \div 2)
    ELSE IF d % 5 = 0 THEN Terminates(d \div 5)
    ELSE d = 1

\* a * b
DecMul(a, b) ==
    CASE a = InvalidOperation \/ b = InvalidOperation -> InvalidOperation
      [] a = Infinity -> IF b = Zero THEN InvalidOperation ELSE Infinity
      [] b = Infinity -> IF a = Zero THEN InvalidOperation ELSE Infinity
      [] a.n = 0 \/ b.n = 0 -> Zero
      [] OTHER -> [Dec(a.n * b.n, a.d * b.d) EXCEPT !.e = a.e \/ b.e]

\* a + b
DecAdd(a, b) ==
    CASE a = InvalidOperation \/ b = InvalidOperation -> InvalidOperation
      [] a = Infinity \/ b = Infinity -> Infinity
      [] OTHER -> [Dec(a.n * b.d + b.n * a.d, a.d * b.d) EXCEPT !.e = a.e \/ b.e]

\* a / b, for finite a and finite b > 0
DecDiv(a, b) ==
    LET q == Dec(a.n * b.d, a.d * b.n)
    IN  [q EXCEPT !.e = a.e \/ b.e \/ ~Terminates(q.d)]

\* is a exactly b while the context's rounding has moved a off it?
OnThreshold(a, b) == IsFinite(a) /\ a.e /\ a.n * b.d = b.n * a.d

\* a <= b for an exact finite b; `above` tells which side of b an inexact a
\* that stands exactly on b has ended up
DecLeq(a, b, above) ==
    CASE a = Infinity -> FALSE
      [] OnThreshold(a, b) -> ~above
      [] OTHER -> a.n * b.d <= b.n * a.d

\* a >= b, for exact finite values
DecGeq(a, b) == a.n * b.d >= b.n * a.d

\* is x an inexact value standing exactly on a tie between two multiples
\* of 1/100 of the unit?
OnTie(x) == IsFinite(x) /\ x.e /\ (2 * x.n) % x.d = 0 /\ ((2 * x.n) \div x.d) % 2 = 1

\* rounding every tie down instead (ROUND_HALF_DOWN)
QuantizeHalfDown(x, below) ==
    IF ~IsFinite(x) THEN InvalidOperation
    ELSE Dec((2 * x.n + x.d - 1) \div (2 * x.d), 1)

\* x.quantize(Decimal("0.01"), rounding=ROUND_HALF_UP): the nearest multiple
\* of 1/100 of the unit, a tie going up; `below` tells whether an inexact x
\* that stands exactly on a tie has ended up below it.  Quantizing Infinity
\* signals InvalidOperation.
Quantize(x, below) ==
    IF ~IsFinite(x) THEN InvalidOperation
    ELSE IF OnTie(x) /\ below THEN Dec((2 * x.n - x.d) \div (2 * x.d), 1)
    ELSE Dec((2 * x.n + x.d) \div (2 * x.d), 1)

\* bool(x) of an Optional[Decimal] kept as NoneNum or Some(amount in 1/100)
TruthyNum(x) == x # NoneNum /\ x[1] # 0

\* DEFAULT_EXCHANGE_RATES: currency -> rate to SEK
DEFAULT_EXCHANGE_RATES ==
    [c \in {"EUR", "USD", "GBP", "SEK"} |->
        CASE c = "EUR" -> Dec(1150, 100)
          [] c = "USD" -> Dec(1050, 100)
          [] c = "GBP" -> Dec(1350, 100)
          [] c = "SEK" -> One]

SWEDISH_VAT_RATE == Dec(25, 100)

CUSTOMS_THRESHOLD_EUR == Dec(15000, 1)

CUSTOMS_RATES ==
    [b \in {"clothing", "footwear", "accessories", "default"} |->
        CASE b = "clothing" -> Dec(12, 100)
          [] b = "footwear" -> Dec(8, 100)
          [] b = "accessories" -> Dec(4, 100)
          [] b = "default" -> Dec(5, 100)]

\* the currency codes of the model; "NOK" is in no table
Currencies == {"SEK", "EUR", "USD", "GBP", "NOK"}

\* what the rate provider can answer to one request: a failure of any kind
\* (connection, timeout, HTTP status, no such rate), a rate, or a rate that
\* Decimal reads as Infinity
NetAnswers == {"error", "rate", "infinity"}

\* the rate the provider quotes for a pair when it answers with one
LiveRate(from_currency, to_currency) ==
    CASE to_currency = "SEK" /\ from_currency = "EUR" -> Dec(11, 1)
      [] to_currency = "SEK" /\ from_currency = "USD" -> Dec(10, 1)
      [] to_currency = "SEK" /\ from_currency = "GBP" -> Dec(13, 1)
      [] to_currency = "EUR" /\ from_currency = "USD" -> Dec(9, 10)
      [] to_currency = "EUR" /\ from_currency = "SEK" -> Dec(9, 100)
      [] to_currency = "USD" /\ from_currency = "EUR" -> Dec(11, 10)
      [] OTHER -> Dec(3, 2)

\* _fetch_live_rate raises on a failure, else returns Decimal(str(rate))
FetchRaises(net) == net = "error"

_fetch_live_rate(from_currency, to_currency, net) ==
    IF net = "infinity" THEN Infinity ELSE LiveRate(from_currency, to_currency)

\* f"{from_currency}_{to_currency}"
CacheKey(from_currency, to_currency) == <<from_currency, to_currency>>

\* DEFAULT_EXCHANGE_RATES.get(c, Decimal("1.0"))
DefaultRate(c) ==
    IF c \in DOMAIN DEFAULT_EXCHANGE_RATES THEN DEFAULT_EXCHANGE_RATES[c] ELSE One

\* a variant of the fallback that answers 1 without consulting the table
StaticRateOne(from_currency, to_currency) == One

\* the part of get_exchange_rate after the live fetch: the static table
StaticRate(from_currency, to_currency) ==
    IF to_currency = "SEK" /\ from_currency \in DOMAIN DEFAULT_EXCHANGE_RATES
    THEN DEFAULT_EXCHANGE_RATES[from_currency]
    ELSE IF to_currency # "SEK"
         THEN DecDiv(DefaultRate(from_currency), DefaultRate(to_currency))
         ELSE One

\* get_exchange_rate(from_currency, to_currency) with the memo table `cache`
\* and the provider answering `net` if it is asked: the rate returned, the
\* memo table afterwards, whether the provider was asked
get_exchange_rate(from_currency, to_currency, key, cache, net) ==
    LET cache_key == CacheKey(from_currency, to_currency)
    IN  IF from_currency = to_currency
        THEN [rate |-> One, cache |-> cache, fetched |-> FALSE]
        ELSE IF cache_key \in DOMAIN cache
        THEN [rate |-> cache[cache_key], cache |-> cache, fetched |-> FALSE]
        ELSE IF key /\ ~FetchRaises(net)
        THEN LET rate == _fetch_live_rate(from_currency, to_currency, net)
             IN  [rate |-> rate, cache |-> (cache_key :> rate) @@ cache, fetched |-> TRUE]
        ELSE [rate |-> StaticRate(from_currency, to_currency),
              cache |-> cache, fetched |-> key]

\* convert_to_sek(amount, from_currency, rate)
convert_to_sek(amount, from_currency, rate, below) ==
    IF from_currency = "SEK" THEN amount ELSE Quantize(DecMul(amount, rate), below)

\* a variant of calculate_shipping that charges the flat cost on the boundary
calculate_shipping_strict(price, config) ==
    IF ~config.ships_to_sweden THEN Zero
    ELSE IF TruthyNum(config.free_shipping_threshold)
            /\ price.n > config.free_shipping_threshold[1] * price.d
         THEN Zero
         ELSE IF TruthyNum(config.base_shipping_cost)
              THEN Dec(config.base_shipping_cost[1], 1) ELSE Zero

\* calculate_shipping(price, config)
calculate_shipping(price, config) ==
    IF ~config.ships_to_sweden THEN Zero
    ELSE IF TruthyNum(config.free_shipping_threshold)
            /\ DecGeq(price, Dec(config.free_shipping_threshold[1], 1))
         THEN Zero
         ELSE IF TruthyNum(config.base_shipping_cost)
              THEN Dec(config.base_shipping_cost[1], 1) ELSE Zero

sShirt == <<"s","h","i","r","t">>
sPants == <<"p","a","n","t","s">>
sJacket == <<"j","a","c","k","e","t">>
sDress == <<"d","r","e","s","s">>
sCoat == <<"c","o","a","t">>
sShoe == <<"s","h","o","e">>
sBoot == <<"b","o","o","t">>
sSneaker == <<"s","n","e","a","k","e","r">>
sSandal == <<"s","a","n","d","a","l">>
sBag == <<"b","a","g">>
sBelt == <<"b","e","l","t">>
sWatch == <<"w","a","t","c","h">>
sJewelry == <<"j","e","w","e","l","r","y">>

\* any(c in cat_lower for c in keywords)
AnyIn(keywords, cat_lower) == \E i \in 1..Len(keywords) : IsSubstr(keywords[i], cat_lower)

\* a variant of the bucket choice that tests footwear before clothing
customs_rate_footwear_first(category) ==
    IF ~Truthy(category) THEN CUSTOMS_RATES["default"]
    ELSE LET cat_lower == Lower(category)
         IN  IF AnyIn(<<sShoe, sBoot, sSneaker, sSandal>>, cat_lower)
             THEN CUSTOMS_RATES["footwear"]
             ELSE IF AnyIn(<<sShirt, sPants, sJacket, sDress, sCoat>>, cat_lower)
             THEN CUSTOMS_RATES["clothing"]
             ELSE IF AnyIn(<<sBag, sBelt, sWatch, sJewelry>>, cat_lower)
             THEN CUSTOMS_RATES["accessories"]
             ELSE CUSTOMS_RATES["default"]

\* calculate_customs: the duty rate of a category
customs_rate(category) ==
    IF ~Truthy(category) THEN CUSTOMS_RATES["default"]
    ELSE LET cat_lower == Lower(category)
         IN  IF AnyIn(<<sShirt, sPants, sJacket, sDress, sCoat>>, cat_lower)
             THEN CUSTOMS_RATES["clothing"]
             ELSE IF AnyIn(<<sShoe, sBoot, sSneaker, sSandal>>, cat_lower)
             THEN CUSTOMS_RATES["footwear"]
             ELSE IF AnyIn(<<sBag, sBelt, sWatch, sJewelry>>, cat_lower)
             THEN CUSTOMS_RATES["accessories"]
             ELSE CUSTOMS_RATES["default"]

\* The places of one run of calculate_total_cost where an inexact value can
\* stand exactly on a threshold or a tie: the comparison with
\* CUSTOMS_THRESHOLD_EUR, then the quantize of customs_duty, import_vat,
\* total_sek, customs, vat and total.  ties[i] tells that the value at place
\* i has ended up on the far side (above the threshold, below the tie).
TiePlaces == 1..7

NoTies == [i \in TiePlaces |-> FALSE]

\* a variant of calculate_customs that charges duty and VAT in every region
calculate_customs_everywhere(price_eur, shipping_eur, region, category, ties) ==
    LET total_value == DecAdd(price_eur, shipping_eur)
        customs_duty ==
            IF DecLeq(total_value, CUSTOMS_THRESHOLD_EUR, ties[1]) THEN Zero
            ELSE Quantize(DecMul(price_eur, customs_rate(category)), ties[2])
        vat_base == DecAdd(total_value, customs_duty)
    IN  [total_value |-> total_value,
         customs_duty |-> customs_duty,
         vat_base |-> vat_base,
         import_vat |-> Quantize(DecMul(vat_base, SWEDISH_VAT_RATE), ties[3])]

\* a variant of calculate_customs without the de-minimis threshold
calculate_customs_no_threshold(price_eur, shipping_eur, region, category, ties) ==
    IF region \in {"SE", "EU"}
    THEN [total_value |-> Zero, customs_duty |-> Zero, vat_base |-> Zero,
          import_vat |-> Zero]
    ELSE LET total_value == DecAdd(price_eur, shipping_eur)
             customs_duty == Quantize(DecMul(price_eur, customs_rate(category)), ties[2])
             vat_base == DecAdd(total_value, customs_duty)
         IN  [total_value |-> total_value,
              customs_duty |-> customs_duty,
              vat_base |-> vat_base,
              import_vat |-> Quantize(DecMul(vat_base, SWEDISH_VAT_RATE), ties[3])]

\* calculate_customs(price_eur, shipping_eur, region, category): the pair
\* (customs_duty, import_vat) in EUR, with the total_value and vat_base it
\* went through (zero where the function returns before computing them)
calculate_customs(price_eur, shipping_eur, region, category, ties) ==
    IF region \in {"SE", "EU"}
    THEN [total_value |-> Zero, customs_duty |-> Zero, vat_base |-> Zero,
          import_vat |-> Zero]
    ELSE LET total_value == DecAdd(price_eur, shipping_eur)
             customs_duty ==
                 IF DecLeq(total_value, CUSTOMS_THRESHOLD_EUR, ties[1]) THEN Zero
                 ELSE Quantize(DecMul(price_eur, customs_rate(category)), ties[2])
             vat_base == DecAdd(total_value, customs_duty)
         IN  [total_value |-> total_value,
              customs_duty |-> customs_duty,
              vat_base |-> vat_base,
              import_vat |-> Quantize(DecMul(vat_base, SWEDISH_VAT_RATE), ties[3])]

\* the cost fields of a ProductResult, all None
NoCosts ==
    [shipping_cost |-> NoneNum, customs_cost |-> NoneNum, vat_cost |-> NoneNum,
     total_cost |-> NoneNum, total_cost_sek |-> NoneNum]

CostFields == {"shipping_cost", "customs_cost", "vat_cost", "total_cost", "total_cost_sek"}

\* the cost fields of product p
CostsOf(p) == [f \in CostFields |-> p[f]]

\* p with the cost fields c
WithCosts(p, c) ==
    [p EXCEPT !.shipping_cost = c.shipping_cost, !.customs_cost = c.customs_cost,
              !.vat_cost = c.vat_cost, !.total_cost = c.total_cost,
              !.total_cost_sek = c.total_cost_sek]

\* a variant of the assignments that adds the shipping cost to the one the
\* product already carries
AssignCostsAdded(old, shipping, customs, vat, total, total_sek, ties) ==
    LET carried == IF old.shipping_cost = NoneNum THEN Zero ELSE old.shipping_cost[1]
    IN  [raised |-> FALSE,
         costs |-> [shipping_cost |-> Some(Quantize(DecAdd(shipping, carried), FALSE)),
                    customs_cost |-> Some(Quantize(customs, ties[5])),
                    vat_cost |-> Some(Quantize(vat, ties[6])),
                    total_cost |-> Some(Quantize(DecAdd(total, carried), ties[7])),
                    total_cost_sek |-> Some(total_sek)]]

\* the assignments of calculate_total_cost to the product, in program order,
\* up to the first quantize that signals InvalidOperation
AssignCosts(old, shipping, customs, vat, total, total_sek, ties) ==
    LET a1 == [old EXCEPT !.shipping_cost = Some(Quantize(shipping, FALSE))]
        a2 == [a1 EXCEPT !.customs_cost = Some(Quantize(customs, ties[5]))]
        a3 == [a2 EXCEPT !.vat_cost = Some(Quantize(vat, ties[6]))]
        a4 == [a3 EXCEPT !.total_cost = Some(Quantize(total, ties[7]))]
        a5 == [a4 EXCEPT !.total_cost_sek = Some(total_sek)]
    IN  CASE ~IsFinite(shipping) -> [raised |-> TRUE, costs |-> old]
          [] ~IsFinite(customs) -> [raised |-> TRUE, costs |-> a1]
          [] ~IsFinite(vat) -> [raised |-> TRUE, costs |-> a2]
          [] ~IsFinite(total) -> [raised |-> TRUE, costs |-> a3]
          [] OTHER -> [raised |-> FALSE, costs |-> a5]

\* a rate that needed no lookup
NoLookup(cache) == [rate |-> One, cache |-> cache, fetched |-> FALSE]

\* calculate_total_cost, statement by statement; s is what the run has
\* computed so far.  The rate to SEK and the shipping cost:
RatedAndShipped(product, config, key, cache, answers, ties) ==
    [product |-> product, config |-> config, key |-> key,
     answers |-> answers, ties |-> ties,
     g1 |-> get_exchange_rate(product.currency, "SEK", key, cache, answers[1]),
     shipping |-> calculate_shipping(product.price, config)]

\* eur_rate = await self.get_exchange_rate(product.currency, "EUR")
WithEurRate(s) ==
    s @@ [g2 |-> IF s.product.currency = "EUR" THEN NoLookup(s.g1.cache)
                 ELSE get_exchange_rate(s.product.currency, "EUR", s.key,
                                        s.g1.cache, s.answers[2])]

\* price_eur and shipping_eur
InEur(s) ==
    s @@ [price_eur |-> IF s.product.currency = "EUR" THEN s.product.price
                        ELSE DecMul(s.product.price, s.g2.rate),
          shipping_eur |-> IF s.product.currency = "EUR" THEN s.shipping
                           ELSE DecMul(s.shipping, s.g2.rate)]

\* customs_eur, vat_eur = self.calculate_customs(...); the run goes on if no
\* operation has signalled so far
WithCustoms(s) ==
    s @@ [cv |-> calculate_customs(s.price_eur, s.shipping_eur, s.config.region,
                                   s.product.category, s.ties)]

WithAssessed(s) ==
    s @@ [assessed |-> /\ s.price_eur # InvalidOperation
                       /\ s.shipping_eur # InvalidOperation
                       /\ s.cv.customs_duty # InvalidOperation
                       /\ s.cv.import_vat # InvalidOperation]

\* sek_to_eur = await self.get_exchange_rate("SEK", "EUR")
WithSekToEur(s) ==
    s @@ [g3 |-> IF s.product.currency = "EUR" \/ ~s.assessed THEN NoLookup(s.g2.cache)
                 ELSE get_exchange_rate("SEK", "EUR", s.key, s.g2.cache, s.answers[3])]

\* eur_to_orig = await self.get_exchange_rate("EUR", product.currency)
WithEurToOrig(s) ==
    s @@ [g4 |-> IF s.product.currency = "EUR" \/ ~s.assessed THEN NoLookup(s.g3.cache)
                 ELSE get_exchange_rate("EUR", s.product.currency, s.key,
                                        s.g3.cache, s.answers[4])]

\* customs and vat in the product's currency
InOriginal(s) ==
    s @@ [customs |-> IF s.product.currency = "EUR" THEN s.cv.customs_duty
                      ELSE DecMul(s.cv.customs_duty, s.g4.rate),
          vat |-> IF s.product.currency = "EUR" THEN s.cv.import_vat
                  ELSE DecMul(s.cv.import_vat, s.g4.rate)]

\* total = product.price + shipping + customs + vat
WithTotal(s) ==
    s @@ [total |-> DecAdd(DecAdd(DecAdd(s.product.price, s.shipping), s.customs), s.vat)]

\* total_sek = self.convert_to_sek(total, product.currency, rate)
WithTotalSek(s) ==
    s @@ [total_sek |-> convert_to_sek(s.total, s.product.currency, s.g1.rate, s.ties[4])]

\* has the run reached the assignments?
Computed(s) ==
    /\ s.assessed
    /\ s.customs # InvalidOperation /\ s.vat # InvalidOperation
    /\ s.total_sek # InvalidOperation

\* the places where the run has met a threshold or a tie with an inexact value
Tied(s) ==
    LET taxed == s.config.region \notin {"SE", "EU"}
    IN  (IF taxed /\ OnThreshold(s.cv.total_value, CUSTOMS_THRESHOLD_EUR)
         THEN {1} ELSE {})
        \cup (IF taxed /\ s.cv.customs_duty # Zero
                 /\ OnTie(DecMul(s.price_eur, customs_rate(s.product.category)))
              THEN {2} ELSE {})
        \cup (IF taxed /\ OnTie(DecMul(s.cv.vat_base, SWEDISH_VAT_RATE))
              THEN {3} ELSE {})
        \cup (IF s.product.currency # "SEK" /\ OnTie(DecMul(s.total, s.g1.rate))
              THEN {4} ELSE {})
        \cup (IF OnTie(s.customs) THEN {5} ELSE {})
        \cup (IF OnTie(s.vat) THEN {6} ELSE {})
        \cup (IF OnTie(s.total) THEN {7} ELSE {})

\* what the run leaves behind, `assigned` being what the assignments did
Outcome(s, assigned) ==
    [raised |-> ~Computed(s) \/ assigned.raised,
     costs |-> IF Computed(s) THEN assigned.costs ELSE CostsOf(s.product),
     cache |-> s.g4.cache,
     fetches |-> Cardinality({i \in 1..4 : <<s.g1, s.g2, s.g3, s.g4>>[i].fetched}),
     rates |-> <<s.g1.rate, s.g2.rate, s.g4.rate>>,
     shipping |-> s.shipping,
     price_eur |-> s.price_eur,
     shipping_eur |-> s.shipping_eur,
     customs_eur |-> s.cv.customs_duty,
     vat_eur |-> s.cv.import_vat,
     customs |-> s.customs,
     vat |-> s.vat,
     total |-> s.total,
     tied |-> IF Computed(s) THEN Tied(s) ELSE {}]

\* the assignments to the product and the return
Assigned(s) ==
    Outcome(s, AssignCosts(CostsOf(s.product), s.shipping, s.customs, s.vat,
                           s.total, s.total_sek, s.ties))

\* CostCalculator.calculate_total_cost(product, config) with the memo table
\* `cache`; answers[i] is what the rate provider answers to the i-th
\* get_exchange_rate call of the run if that call asks it, ties[i] the side
\* an inexact value has ended up on at place i.  The result tells whether
\* the run raised, the product's cost fields afterwards, the memo table
\* afterwards, and the values the run went through.
calculate_total_cost(product, config, key, cache, answers, ties) ==
    Assigned(WithTotalSek(WithTotal(InOriginal(WithEurToOrig(WithSekToEur(
        WithAssessed(WithCustoms(InEur(WithEurRate(
            RatedAndShipped(product, config, key, cache, answers, ties)))))))))))

\* Runs of calculate_total_cost the model follows on one product.
MaxRuns == 2

\* get_exchange_rate calls the model follows on one calculator.
MaxRateCalls == 2

sCatJacket == <<"J","a","c","k","e","t">>
sCatDressShoes == <<"d","r","e","s","s"," ","s","h","o","e","s">>
sCatSneakers == <<"s","n","e","a","k","e","r","s">>
sCatBelt == <<"b","e","l","t">>

CostCategories == {None, sCatJacket, sCatDressShoes, sCatSneakers, sCatBelt, sHoodie}

\* prices in 1/100: 100.00, 140.00, 164.29, 199.99, 200.00
CostPrices == {10000, 14000, 16429, 19999, 20000}

CostCurrencies == {"SEK", "EUR", "USD"}

\* the ProductResult fields the calculator reads and writes
CostProduct(price, currency, category) ==
    [price |-> Dec(price, 1), currency |-> currency, category |-> category,
     shipping_cost |-> NoneNum, customs_cost |-> NoneNum, vat_cost |-> NoneNum,
     total_cost |-> NoneNum, total_cost_sek |-> NoneNum]

CostProducts ==
    {CostProduct(price, currency, category) :
        price \in CostPrices, currency \in CostCurrencies, category \in CostCategories}

\* the shipping section of a shop's YAML file: each key present or not
ShippingSections ==
    {a @@ b @@ c :
        a \in {EmptyDict, [free_threshold |-> 0], [free_threshold |-> 20000]},
        b \in {EmptyDict, [base_cost |-> 1000], [base_cost |-> 2000]},
        c \in {EmptyDict, [ships_to_sweden |-> FALSE]}}

\* the YAML documents of the shops the calculator is run for
CostDocs ==
    {[id |-> "shop", name |-> "shop", url |-> "https://shop.example",
      region |-> region, currency |-> "EUR", shipping |-> shipping] :
        region \in RegionMembers, shipping \in ShippingSections}

\* the products and shops followed with a rate-provider key configured
KeyedProducts ==
    {CostProduct(20000, "EUR", sCatJacket), CostProduct(20000, "USD", sCatJacket),
     CostProduct(200000, "SEK", sCatJacket)}

KeyedDocs == {doc \in CostDocs : doc.shipping = [base_cost |-> 2000]}

\* what the rate provider can answer to the four rate lookups of one run;
\* without a key it is never asked
Answers(key) ==
    IF key THEN [1..4 -> NetAnswers] ELSE {[i \in 1..4 |-> "error"]}

\* The sides the inexact values of a run can have ended up on.  `tied` is
\* the set of places where the run meets a threshold or a tie when every
\* earlier such value is taken at face value; places 4 to 7 feed no later
\* place, so when only they are met each goes either way on its own, and
\* when an earlier place is met every combination is followed.
TieChoices(tied) ==
    IF tied \subseteq 4..7
    THEN {t \in [TiePlaces -> BOOLEAN] : \A i \in TiePlaces : t[i] => i \in tied}
    ELSE [TiePlaces -> BOOLEAN]

CostInit ==
    /\ api_key \in BOOLEAN
    /\ cc_product \in (IF api_key THEN KeyedProducts ELSE CostProducts)
    /\ \E doc \in (IF api_key THEN KeyedDocs ELSE CostDocs) :
           /\ cc_doc = doc
           /\ cc_config = _parse_config(doc)
    /\ _cached_rates = EmptyDict
    /\ cc_ret = <<>>
    /\ cc_runs = 0

\* await calculator.calculate_total_cost(product, config)
CalculateTotalCost ==
    /\ cc_runs < MaxRuns
    /\ \E answers \in Answers(api_key) :
         \E ties \in TieChoices(calculate_total_cost(cc_product, cc_config, api_key,
                                     _cached_rates, answers, NoTies).tied) :
           LET r == calculate_total_cost(cc_product, cc_config, api_key,
                                         _cached_rates, answers, ties)
           IN  /\ \A i \in TiePlaces : ties[i] => i \in r.tied
               /\ cc_product' = WithCosts(cc_product, r.costs)
               /\ _cached_rates' = r.cache
               /\ cc_ret' = r @@ [before |-> CostsOf(cc_product),
                                  previous |-> cc_ret, ties |-> ties]
    /\ cc_runs' = cc_runs + 1
    /\ UNCHANGED <<cc_config, cc_doc, api_key>>
    /\ CcFrame

CostNext == CalculateTotalCost

\* the calculator alone: calls of get_exchange_rate
RatesInit ==
    /\ cc_product = 0 /\ cc_config = 0 /\ cc_doc = 0
    /\ api_key \in BOOLEAN
    /\ _cached_rates = EmptyDict
    /\ cc_ret = <<>>
    /\ cc_runs = 0

\* await calculator.get_exchange_rate(from_currency, to_currency)
GetExchangeRate ==
    /\ cc_runs < MaxRateCalls
    /\ \E from_currency \in Currencies, to_currency \in Currencies, net \in NetAnswers :
           LET g == get_exchange_rate(from_currency, to_currency, api_key,
                                      _cached_rates, net)
           IN  /\ _cached_rates' = g.cache
               /\ cc_ret' = [from_currency |-> from_currency,
                             to_currency |-> to_currency,
                             net |-> net,
                             cached |-> CacheKey(from_currency, to_currency)
                                            \in DOMAIN _cached_rates,
                             memo |-> _cached_rates,
                             rate |-> g.rate,
                             fetched |-> g.fetched]
    /\ cc_runs' = cc_runs + 1
    /\ UNCHANGED <<cc_product, cc_config, cc_doc, api_key>>
    /\ CcFrame

RatesNext == GetExchangeRate

----------------------------------------------------------------------------
(* Search orchestrator: search_products *)

\* the shops a configuration file exists for, in the order of _configs
SearchShopOrder == <<"zalando_se", "kidsbrandstore_se", "nordic_feed">>

SearchShopIds == {SearchShopOrder[i] : i \in 1..Len(SearchShopOrder)}

\* request.shops: None, or a list of shop ids
NoShopList == <<"<None>">>

ShopLists ==
    {NoShopList, <<>>, <<"nordic_feed">>, <<"nordic_feed", "zalando_se">>,
     <<UnknownShop>>, <<UnknownShop, "kidsbrandstore_se">>}

\* request.include_costs
IncludeCosts == {FALSE, TRUE}

\* the shop lists of the requests followed with cost inclusion
CostedShopLists == {<<"nordic_feed">>, <<"nordic_feed", "zalando_se">>}

SearchRequests ==
    {r \in [shops : ShopLists, include_costs : IncludeCosts] :
        r.include_costs => r.shops \in CostedShopLists}

\* a candidate as an adapter returns it: no cost field set
Candidate(shop_id, external_id, relevance_score, price) ==
    [shop_id |-> shop_id, external_id |-> external_id,
     relevance_score |-> relevance_score, price |-> price, total_cost_sek |-> NoneNum]

\* the lists adapter.search can return for a shop (each in descending
\* relevance), besides raising
Listing(shop_id) ==
    CASE shop_id = "zalando_se" ->
             <<Candidate(shop_id, "z1", 960, 59900), Candidate(shop_id, "z2", 300, 19900)>>
      [] shop_id = "kidsbrandstore_se" ->
             <<Candidate(shop_id, "k1", 960, 49900), Candidate(shop_id, "k2", 0, 9900)>>
      [] shop_id = "nordic_feed" ->
             <<Candidate(shop_id, "f1", 1200, 89900), Candidate(shop_id, "f2", 300, 19900)>>

\* what adapter.search does: it returns a list, or it raises (an error of the
\* network or of the document, or a timeout: all of them are Exceptions)
SearchOutcomes(shop_id) ==
    {[kind |-> "raise", value |-> <<>>]}
        \cup {[kind |-> "return", value |-> Take(Listing(shop_id), n)] : n \in 0..2}

\* search_shop without its try/except
search_shop_uncaught(outcome) == outcome

\* search_shop(adapter): the adapter's list, or [] when adapter.search raises
search_shop(outcome) ==
    IF outcome.kind = "raise" THEN [kind |-> "return", value |-> <<>>] ELSE outcome

\* ShopRegistry.get_adapter(shop_id) is not None
HasAdapter(shops, shop_id) == shop_id \in shops

\* the adapters search_products searches, as their shop ids
TargetAdapters(shops, request) ==
    IF request.shops # NoShopList /\ request.shops # <<>>
    THEN SelectSeq(request.shops, LAMBDA shop_id : HasAdapter(shops, shop_id))
    ELSE SelectSeq(SearchShopOrder, LAMBDA shop_id : HasAdapter(shops, shop_id))

\* for results in results_lists: all_results.extend(results)
RECURSIVE Flatten(_)
Flatten(lists) ==
    IF lists = <<>> THEN <<>> ELSE Head(lists) \o Flatten(Tail(lists))

\* a variant of the sort key that looks at the list price alone
CostKeyOfPrice(p) == p.price

\* the second component of the sort key: float(p.total_cost_sek or p.price)
CostKey(p) ==
    IF p.total_cost_sek # NoneNum /\ p.total_cost_sek # Some(0)
    THEN p.total_cost_sek[1] ELSE p.price

\* what a shop adds to the price of a candidate on its way to Sweden, in two
\* states of the exchange rates
Surcharges(shop_id) ==
    IF shop_id = "nordic_feed" THEN {4900, 45000} ELSE {0, 4900}

\* what calculator.calculate_total_cost(product, config) does to a candidate:
\* it returns the product with its landed cost set, or it raises
CostOutcomes(p) ==
    {[kind |-> "raise", value |-> p]}
        \cup {[kind |-> "return",
               value |-> [p EXCEPT !.total_cost_sek = Some(p.price + c)]] :
                  c \in Surcharges(p.shop_id)}

\* add_costs(product): the calculator's result when the registry has a
\* configuration for the product's shop, the product as it is otherwise
add_costs(shops, p, outcome) ==
    IF p.shop_id \in shops THEN outcome ELSE [kind |-> "return", value |-> p]

\* key(a) <= key(b) for key = (-relevance_score, cost)
KeyLeq(a, b) ==
    \/ a.relevance_score > b.relevance_score
    \/ a.relevance_score = b.relevance_score /\ CostKey(a) <= CostKey(b)

RECURSIVE InsertByKey(_, _)
InsertByKey(sorted, p) ==
    IF sorted = <<>> THEN <<p>>
    ELSE IF KeyLeq(Head(sorted), p)
    THEN <<Head(sorted)>> \o InsertByKey(Tail(sorted), p)
    ELSE <<p>> \o sorted

\* all_results.sort(key=...): ascending in the key, equal keys keep their order
RECURSIVE SortResults(_)
SortResults(l) ==
    IF l = <<>> THEN <<>>
    ELSE InsertByKey(SortResults(SubSeq(l, 1, Len(l) - 1)), l[Len(l)])

Running == [kind |-> "running", value |-> <<>>]

SrInit ==
    /\ sr_shops \in SUBSET SearchShopIds
    /\ sr_request = [shops |-> NoShopList, include_costs |-> FALSE]
    /\ sr_adapters = <<>>
    /\ sr_tasks = <<>>
    /\ sr_searched = <<>>
    /\ sr_costs = <<>>
    /\ all_results = <<>>
    /\ sr_response = [status |-> 0]
    /\ sr_pc = "idle"

\* search_products up to its gather: the adapters are chosen and one
\* search_shop task per adapter is started; without adapters, HTTP 400
search_products ==
    /\ sr_pc \in {"idle", "responded"}
    /\ \E request \in SearchRequests :
           LET adapters == TargetAdapters(sr_shops, request)
           IN  /\ sr_request' = request
               /\ sr_adapters' = adapters
               /\ sr_tasks' = [i \in 1..Len(adapters) |-> Running]
               /\ sr_searched' = [i \in 1..Len(adapters) |-> Running]
               /\ sr_costs' = <<>>
               /\ all_results' = <<>>
               /\ IF adapters = <<>>
                  THEN sr_response' = [status |-> 400] /\ sr_pc' = "responded"
                  ELSE sr_response' = [status |-> 0] /\ sr_pc' = "gathering"
    /\ UNCHANGED sr_shops
    /\ SrFrame

\* adapter.search of one target adapter ends and its search_shop task with it
SearchShopEnds ==
    /\ sr_pc = "gathering"
    /\ \E i \in 1..Len(sr_adapters) :
           /\ sr_tasks[i] = Running
           /\ \E outcome \in SearchOutcomes(sr_adapters[i]) :
                  /\ sr_searched' = [sr_searched EXCEPT ![i] = outcome]
                  /\ sr_tasks' = [sr_tasks EXCEPT ![i] = search_shop(outcome)]
    /\ UNCHANGED <<sr_shops, sr_request, sr_adapters, sr_costs, all_results,
                   sr_response, sr_pc>>
    /\ SrFrame

\* asyncio.gather returns (every task has returned) or raises (a task has
\* raised); search_products flattens, then starts one add_costs task per
\* candidate if costs are requested and there are candidates, and sorts
\* and responds otherwise
GatherEnds ==
    /\ sr_pc = "gathering"
    /\ IF \E i \in 1..Len(sr_tasks) : sr_tasks[i].kind = "raise"
       THEN /\ sr_response' = [status |-> 500]
            /\ sr_pc' = "responded"
            /\ UNCHANGED <<all_results, sr_costs>>
       ELSE /\ \A i \in 1..Len(sr_tasks) : sr_tasks[i].kind = "return"
            /\ all_results' = Flatten([i \in 1..Len(sr_tasks) |-> sr_tasks[i].value])
            /\ IF sr_request.include_costs /\ all_results' # <<>>
               THEN /\ sr_costs' = [i \in 1..Len(all_results') |-> Running]
                    /\ sr_pc' = "costing"
                    /\ UNCHANGED sr_response
               ELSE /\ sr_response' =
                           [status |-> 200,
                            total_results |-> Len(all_results'),
                            results |-> SortResults(all_results')]
                    /\ sr_pc' = "responded"
                    /\ UNCHANGED sr_costs
    /\ UNCHANGED <<sr_shops, sr_request, sr_adapters, sr_tasks, sr_searched>>
    /\ SrFrame

\* the add_costs task of one candidate ends: the calculator has written the
\* costs into the product, which the list holds, or has raised
AddCostsEnds ==
    /\ sr_pc = "costing"
    /\ \E i \in 1..Len(sr_costs) :
           /\ sr_costs[i] = Running
           /\ \E outcome \in CostOutcomes(all_results[i]) :
                  LET done == add_costs(sr_shops, all_results[i], outcome)
                  IN  /\ sr_costs' = [sr_costs EXCEPT ![i] = done]
                      /\ all_results' = [all_results EXCEPT ![i] = done.value]
    /\ UNCHANGED <<sr_shops, sr_request, sr_adapters, sr_tasks, sr_searched,
                   sr_response, sr_pc>>
    /\ SrFrame

\* the gather over the add_costs tasks raises as soon as one task has
\* raised, and search_products with it; it returns the products once every
\* task has returned, and search_products sorts and responds
CostsGatherEnds ==
    /\ sr_pc = "costing"
    /\ IF \E i \in 1..Len(sr_costs) : sr_costs[i].kind = "raise"
       THEN /\ sr_response' = [status |-> 500]
            /\ UNCHANGED all_results
       ELSE /\ \A i \in 1..Len(sr_costs) : sr_costs[i].kind = "return"
            /\ all_results' = [i \in 1..Len(sr_costs) |-> sr_costs[i].value]
            /\ sr_response' =
                   [status |-> 200,
                    total_results |-> Len(all_results'),
                    results |-> SortResults(all_results')]
    /\ sr_pc' = "responded"
    /\ UNCHANGED <<sr_shops, sr_request, sr_adapters, sr_tasks, sr_searched, sr_costs>>
    /\ SrFrame

SrNext ==
    search_products \/ SearchShopEnds \/ GatherEnds \/ AddCostsEnds \/ CostsGatherEnds

----------------------------------------------------------------------------
(* Batched monitoring: PriceChecker.check_all_items, statement by statement *)

\* a variant that puts every entry into one batch
batch_size_unbounded == 100 * 10

\* batch_size = 10
batch_size == 10

\* the lengths of the lists check_all_items is followed on
BatchLengths == {0, 1, 10, 11, 21}

\* the k-th watch entry of such a list; every third one names a shop the
\* registry has no adapter for
BatchProduct(k) ==
    CASE k % 3 = 1 -> [shop_id |-> "nordic_feed", product_id |-> "p1"]
      [] k % 3 = 2 -> [shop_id |-> "kidsbrandstore_se", product_id |-> "p2"]
      [] OTHER -> [shop_id |-> UnknownShop, product_id |-> "p3"]

BatchItem(k) ==
    NewItem(k, "user@example.com", BatchProduct(k), 10000,
            IF k % 2 = 0 THEN Some(9000) ELSE NoneNum, TRUE)

BatchItems(n) == [k \in 1..n |-> BatchItem(k)]

\* what the shops' pages show while the list is checked
BatchPrices == [p \in ListedProducts |-> IF p.product_id = "p1" THEN 8000 ELSE 12000]

\* what the adapters do for the entries of a list: every check_availability
\* returns a price, some raise or return no price, or all raise
FatePatterns == {"all_priced", "some_fail", "all_fail"}

Fate(item, pattern) ==
    IF item.shop_id \notin ShopIds THEN "no_adapter"
    ELSE CASE pattern = "all_priced" -> "price"
           [] pattern = "all_fail" -> "raises"
           [] OTHER -> CASE item.id % 4 = 1 -> "raises"
                         [] item.id % 4 = 2 -> "no_price"
                         [] OTHER -> "price"

\* a variant of the batch that reaches one entry into the next batch
BatchOfOverlapping(n, i) == {k \in 1..n : i < k /\ k <= i + batch_size + 1}

\* batch = items[i : i + batch_size], as the positions of its entries
BatchOf(n, i) == {k \in 1..n : i < k /\ k <= i + batch_size}

Pending == [watchlist_id |-> -1]

\* a variant of the loop over checks that stops at the first None
RECURSIVE AppendChecksUntilNone(_, _, _)
AppendChecksUntilNone(results, tasks, ks) ==
    IF ks = {} THEN results
    ELSE LET k == CHOOSE k \in ks : \A j \in ks : k <= j
         IN  IF tasks[k] = NoCheck THEN results
             ELSE AppendChecksUntilNone(Append(results, tasks[k]), tasks, ks \ {k})

\* for check in checks: if isinstance(check, PriceCheck): results.append(check)
RECURSIVE AppendChecks(_, _, _)
AppendChecks(results, tasks, ks) ==
    IF ks = {} THEN results
    ELSE LET k == CHOOSE k \in ks : \A j \in ks : k <= j
         IN  AppendChecks(IF tasks[k] # NoCheck THEN Append(results, tasks[k]) ELSE results,
                          tasks, ks \ {k})

\* the checks that are in flight: check_price tasks started and not ended
InFlight == {k \in DOMAIN ba_tasks : ba_tasks[k] = Pending}

BatchInit ==
    /\ \E n \in BatchLengths : ba_items = BatchItems(n)
    /\ ba_pattern \in FatePatterns
    /\ ba_i = 0
    /\ ba_tasks = <<>>
    /\ ba_results = <<>>
    /\ ba_started = [k \in 1..Len(ba_items) |-> 0]
    /\ ba_sleeps = 0
    /\ ba_pc = "loop"

\* the head of the for loop and the creation of the batch's check_price
\* tasks by asyncio.gather, or the return when the range is exhausted
BatchStarts ==
    /\ ba_pc = "loop"
    /\ IF ba_i < Len(ba_items)
       THEN /\ ba_tasks' = [k \in BatchOf(Len(ba_items), ba_i) |-> Pending]
            /\ ba_started' = [k \in 1..Len(ba_items) |->
                                 IF k \in BatchOf(Len(ba_items), ba_i)
                                 THEN ba_started[k] + 1 ELSE ba_started[k]]
            /\ ba_pc' = "gathering"
       ELSE /\ ba_pc' = "returned"
            /\ UNCHANGED <<ba_tasks, ba_started>>
    /\ UNCHANGED <<ba_items, ba_pattern, ba_i, ba_results, ba_sleeps>>
    /\ BaFrame

\* the check_price task of one entry ends: check_availability has returned
\* or raised, or there was no adapter to ask
CheckPriceEnds ==
    /\ ba_pc = "gathering"
    /\ \E k \in InFlight :
           ba_tasks' = [ba_tasks EXCEPT ![k] =
                           check_price(ba_items[k], Fate(ba_items[k], ba_pattern),
                                       BatchPrices)]
    /\ UNCHANGED <<ba_items, ba_pattern, ba_i, ba_results, ba_started, ba_sleeps, ba_pc>>
    /\ BaFrame

\* the gather returns: the PriceChecks are appended, and the loop sleeps if
\* entries remain
BatchGathered ==
    /\ ba_pc = "gathering"
    /\ InFlight = {}
    /\ ba_results' = AppendChecks(ba_results, ba_tasks, DOMAIN ba_tasks)
    /\ ba_tasks' = <<>>
    /\ IF ba_i + batch_size < Len(ba_items)
       THEN ba_pc' = "sleeping" /\ UNCHANGED ba_i
       ELSE ba_pc' = "loop" /\ ba_i' = ba_i + batch_size
    /\ UNCHANGED <<ba_items, ba_pattern, ba_started, ba_sleeps>>
    /\ BaFrame

\* await asyncio.sleep(1) ends
SleepEnds ==
    /\ ba_pc = "sleeping"
    /\ ba_sleeps' = ba_sleeps + 1
    /\ ba_i' = ba_i + batch_size
    /\ ba_pc' = "loop"
    /\ UNCHANGED <<ba_items, ba_pattern, ba_tasks, ba_results, ba_started>>
    /\ BaFrame

BatchNext == BatchStarts \/ CheckPriceEnds \/ BatchGathered \/ SleepEnds

----------------------------------------------------------------------------
(* Exchange rates under concurrency: get_exchange_rate calls of the       *)
(* add_costs tasks of one gather, interleaved at their await              *)

\* get_exchange_rate calls the model follows on one calculator.
MaxRateTasks == 3

\* the currency pairs of these calls
MemoPairs == {<<"EUR", "SEK">>, <<"USD", "EUR">>, <<"SEK", "SEK">>}

MemoInit ==
    /\ cc_product = 0 /\ cc_config = 0 /\ cc_doc = 0 /\ cc_ret = 0 /\ cc_runs = 0
    /\ api_key \in BOOLEAN
    /\ _cached_rates = EmptyDict
    /\ rate_calls = <<>>
    /\ rate_log = <<>>

Returned(pair, rate) == [from_currency |-> pair[1], to_currency |-> pair[2], rate |-> rate]

\* get_exchange_rate up to its await: it returns at once for equal
\* currencies, for a memoized pair and without a key, and waits for
\* _fetch_live_rate otherwise
RateCallStarts ==
    /\ Len(rate_calls) + Len(rate_log) < MaxRateTasks
    /\ \E pair \in MemoPairs :
           LET g == get_exchange_rate(pair[1], pair[2], api_key, _cached_rates, "error")
           IN  IF g.fetched
               THEN /\ rate_calls' = Append(rate_calls, pair)
                    /\ UNCHANGED rate_log
               ELSE /\ rate_log' = Append(rate_log, Returned(pair, g.rate))
                    /\ UNCHANGED rate_calls
    /\ UNCHANGED <<_cached_rates, api_key, cc_product, cc_config, cc_doc, cc_ret, cc_runs>>
    /\ MmFrame

\* _fetch_live_rate of one waiting call returns or raises: the rate is
\* memoized and returned, or the static table answers
FetchEnds ==
    /\ \E i \in 1..Len(rate_calls), net \in NetAnswers :
           LET pair == rate_calls[i]
               rate == _fetch_live_rate(pair[1], pair[2], net)
           IN  /\ rate_calls' = SubSeq(rate_calls, 1, i - 1)
                                    \o SubSeq(rate_calls, i + 1, Len(rate_calls))
               /\ IF FetchRaises(net)
                  THEN /\ rate_log' = Append(rate_log,
                                             Returned(pair, StaticRate(pair[1], pair[2])))
                       /\ UNCHANGED _cached_rates
                  ELSE /\ rate_log' = Append(rate_log, Returned(pair, rate))
                       /\ _cached_rates' =
                              (CacheKey(pair[1], pair[2]) :> rate) @@ _cached_rates
    /\ UNCHANGED <<api_key, cc_product, cc_config, cc_doc, cc_ret, cc_runs>>
    /\ MmFrame

MemoNext == RateCallStarts \/ FetchEnds

----------------------------------------------------------------------------
(* Script-rendered adapter: the browser and the context of one            *)
(* PlaywrightScraper, searches interleaved at their awaits                *)

\* Searches the model follows on one PlaywrightScraper.
MaxSearches == 3

\* self._context = None
NoContext == [id |-> 0, browser |-> 0]

PwInit ==
    /\ _browser = 0
    /\ _context = NoContext
    /\ pw_searches = <<>>
    /\ pw_launched = 0
    /\ pw_contexts = 0
    /\ pw_lost = {}

\* self._browser is None or not self._browser.is_connected()
NeedsBrowser(browser, lost) == browser = 0 \/ browser \in lost

\* _get_context once _get_browser has returned `browser`: the search waits
\* for browser.new_context if there is no context, else for new_page
AfterBrowser(browser, context) ==
    IF context = NoContext
    THEN [pc |-> "new_context", browser |-> browser]
    ELSE [pc |-> "new_page", browser |-> browser]

\* search, _new_page, _get_context and _get_browser up to the first await
SearchStarts ==
    /\ Len(pw_searches) < MaxSearches
    /\ pw_searches' =
           Append(pw_searches,
                  IF NeedsBrowser(_browser, pw_lost)
                  THEN [pc |-> "launch", browser |-> 0]
                  ELSE AfterBrowser(_browser, _context))
    /\ UNCHANGED <<_browser, _context, pw_launched, pw_contexts, pw_lost>>
    /\ PwFrame

\* async_playwright().start() and chromium.launch() of one search end: the
\* browser is stored and _get_context goes on, or the search fails
LaunchEnds ==
    /\ \E i \in 1..Len(pw_searches), ok \in BOOLEAN :
           /\ pw_searches[i].pc = "launch"
           /\ IF ok
              THEN /\ pw_launched' = pw_launched + 1
                   /\ _browser' = pw_launched + 1
                   /\ pw_searches' =
                          [pw_searches EXCEPT ![i] = AfterBrowser(pw_launched + 1, _context)]
              ELSE /\ pw_searches' = [pw_searches EXCEPT ![i].pc = "failed"]
                   /\ UNCHANGED <<_browser, pw_launched>>
    /\ UNCHANGED <<_context, pw_contexts, pw_lost>>
    /\ PwFrame

\* browser.new_context() of one search ends: the context is stored, or the
\* search fails
NewContextEnds ==
    /\ \E i \in 1..Len(pw_searches), ok \in BOOLEAN :
           /\ pw_searches[i].pc = "new_context"
           /\ IF ok /\ pw_searches[i].browser \notin pw_lost
              THEN /\ pw_contexts' = pw_contexts + 1
                   /\ _context' = [id |-> pw_contexts + 1,
                                   browser |-> pw_searches[i].browser]
                   /\ pw_searches' = [pw_searches EXCEPT ![i].pc = "new_page"]
              ELSE /\ pw_searches' = [pw_searches EXCEPT ![i].pc = "failed"]
                   /\ UNCHANGED <<_context, pw_contexts>>
    /\ UNCHANGED <<_browser, pw_launched, pw_lost>>
    /\ PwFrame

\* the rest of one search: the page is opened, read and closed, or an
\* exception ends the search with an empty list
SearchEnds ==
    /\ \E i \in 1..Len(pw_searches) :
           /\ pw_searches[i].pc = "new_page"
           /\ pw_searches' = [pw_searches EXCEPT ![i].pc = "done"]
    /\ UNCHANGED <<_browser, _context, pw_launched, pw_contexts, pw_lost>>
    /\ PwFrame

\* a browser process goes away
BrowserDisconnects ==
    /\ \E b \in 1..pw_launched :
           /\ b \notin pw_lost
           /\ pw_lost' = pw_lost \cup {b}
    /\ UNCHANGED <<_browser, _context, pw_searches, pw_launched, pw_contexts>>
    /\ PwFrame

PwNext == SearchStarts \/ LaunchEnds \/ NewContextEnds \/ SearchEnds \/ BrowserDisconnects

----------------------------------------------------------------------------
(* Searches over one feed adapter: the ProductResult objects of its       *)
(* catalog are the objects adapter.search returns and search_products     *)
(* costs, ranks and reports                                               *)

\* Search requests the model follows over the feed adapter.
MaxFeedSearches == 2

\* the YAML document of the feed shop
FeedShopDoc ==
    [id |-> "shop", name |-> "shop", url |-> "https://shop.example",
     region |-> "EU", currency |-> "EUR", shipping |-> [base_cost |-> 2000]]

\* what calculate_total_cost assigns to a record of the catalog, without a
\* rate-provider key
FeedCosts(product) ==
    calculate_total_cost(CostProduct(product.price, "EUR", product.category),
                         _parse_config(FeedShopDoc), FALSE, EmptyDict,
                         [i \in 1..4 |-> "error"], NoTies).costs

\* float(x) if x else None, for a cost field
FloatOrNone(x) == IF x = NoneNum \/ x[1] = Zero THEN NoneNum ELSE x

\* a record of the catalog as the sort key reads it
Ranked(product, costs) ==
    [Candidate("shop", product.external_id, product.relevance_score, product.price)
        EXCEPT !.total_cost_sek =
                   IF costs.total_cost_sek = NoneNum THEN NoneNum
                   ELSE Some(costs.total_cost_sek[1].n)]

\* all_results.sort(...) and the ProductResponse of each product: the
\* score and the cost fields are read from the objects as they are now
BuildResponse(ids, catalog, costs, include_costs) ==
    LET sorted == SortResults([j \in 1..Len(ids) |->
                                  Ranked(DictGet(catalog, ids[j]), costs[ids[j]])])
    IN  [j \in 1..Len(sorted) |->
            [external_id |-> sorted[j].external_id,
             relevance_score |-> sorted[j].relevance_score,
             costs |-> [f \in CostFields |-> FloatOrNone(costs[sorted[j].external_id][f])]]]

\* the catalog after import_feed, no cost field set, no search running
FcInit ==
    /\ ad_setup = 0 /\ site = 0 /\ imported = 0 /\ ad_tasks = 0 /\ ad_ret = 0
    /\ _products = CatalogOf(_parse_feed(Rows("catalog")))
    /\ fc_costs = [id \in DictKeys(CatalogOf(_parse_feed(Rows("catalog")))) |-> NoCosts]
    /\ fc_searches = <<>>

AdRest == <<ad_setup, site, imported, ad_tasks, ad_ret>>

\* a request arrives and its search_shop task runs adapter.search, which
\* does not wait on a catalog that is loaded: the matching records get this
\* query's score and the best of them are returned
FeedSearchRuns ==
    /\ Len(fc_searches) < MaxFeedSearches
    /\ \E query \in AdQueries, include_costs \in BOOLEAN :
           LET found == FeedSearchLoop(_products, query)
               results == Take(SortByRelevance(found.results), query.limit)
           IN  /\ _products' = found.catalog
               /\ fc_searches' =
                      Append(fc_searches,
                             [query |-> query, include_costs |-> include_costs,
                              pc |-> "gathering",
                              results |-> [j \in 1..Len(results) |-> results[j].external_id],
                              costed |-> {},
                              response |-> <<>>])
    /\ UNCHANGED <<fc_costs, AdRest>>
    /\ FcFrame

\* the gather of a request returns to search_products: the add_costs
\* tasks are started if costs are asked for, else the request is answered
FeedGatherEnds ==
    /\ \E i \in 1..Len(fc_searches) :
           LET s == fc_searches[i]
           IN  /\ s.pc = "gathering"
               /\ fc_searches' =
                      [fc_searches EXCEPT ![i] =
                          IF s.include_costs /\ s.results # <<>>
                          THEN [s EXCEPT !.pc = "costing"]
                          ELSE [s EXCEPT !.pc = "responded",
                                         !.response = BuildResponse(s.results, _products,
                                                          fc_costs, s.include_costs)]]
    /\ UNCHANGED <<_products, fc_costs, AdRest>>
    /\ FcFrame

\* the add_costs task of one product of a request ends: the calculator has
\* assigned the cost fields of the object
FeedAddCostsEnds ==
    /\ \E i \in 1..Len(fc_searches) :
           LET s == fc_searches[i]
           IN  /\ s.pc = "costing"
               /\ \E j \in 1..Len(s.results) :
                      /\ j \notin s.costed
                      /\ fc_costs' = [fc_costs EXCEPT ![s.results[j]] =
                                         FeedCosts(DictGet(_products, s.results[j]))]
                      /\ fc_searches' = [fc_searches EXCEPT ![i].costed = @ \cup {j}]
    /\ UNCHANGED <<_products, AdRest>>
    /\ FcFrame

\* the gather over the add_costs tasks returns and the request is answered
FeedCostsGatherEnds ==
    /\ \E i \in 1..Len(fc_searches) :
           LET s == fc_searches[i]
           IN  /\ s.pc = "costing"
               /\ s.costed = 1..Len(s.results)
               /\ fc_searches' =
                      [fc_searches EXCEPT ![i] =
                          [s EXCEPT !.pc = "responded",
                                    !.response = BuildResponse(s.results, _products,
                                                     fc_costs, s.include_costs)]]
    /\ UNCHANGED <<_products, fc_costs, AdRest>>
    /\ FcFrame

FcNext == FeedSearchRuns \/ FeedGatherEnds \/ FeedAddCostsEnds \/ FeedCostsGatherEnds

----------------------------------------------------------------------------
(* Specifications *)

RelIdle == rel_product = 0 /\ rel_query = 0 /\ rel_pc = "idle"

RegIdle ==
    /\ files = 0 /\ _configs = 0 /\ _adapters = 0
    /\ constructed = 0 /\ edits = 0 /\ reg_ret = 0 /\ last_loaded = 0

MonIdle ==
    /\ _watchlist = 0 /\ shop_price = 0 /\ checks = 0
    /\ notifications = 0 /\ mon_pc = "off"

AdIdle ==
    /\ ad_setup = 0 /\ site = 0 /\ _products = 0
    /\ imported = 0 /\ ad_tasks = 0 /\ ad_ret = 0

SrIdle ==
    /\ sr_shops = 0 /\ sr_request = 0 /\ sr_adapters = 0 /\ sr_tasks = 0
    /\ sr_searched = 0 /\ sr_costs = 0 /\ all_results = 0 /\ sr_response = 0
    /\ sr_pc = "off"

CcIdle ==
    /\ api_key = 0 /\ _cached_rates = 0 /\ cc_product = 0 /\ cc_doc = 0
    /\ cc_config = 0 /\ cc_ret = 0 /\ cc_runs = 0

BaIdle ==
    /\ ba_items = 0 /\ ba_pattern = 0 /\ ba_i = 0 /\ ba_tasks = 0
    /\ ba_results = 0 /\ ba_started = 0 /\ ba_sleeps = 0 /\ ba_pc = "off"

MmIdle == rate_calls = 0 /\ rate_log = 0

PwIdle ==
    /\ _browser = 0 /\ _context = 0 /\ pw_searches = 0
    /\ pw_launched = 0 /\ pw_contexts = 0 /\ pw_lost = 0

FcIdle == fc_costs = 0 /\ fc_searches = 0

\* relevance scoring of one product against one query
InitRel ==
    RelInit /\ RegIdle /\ MonIdle /\ AdIdle /\ SrIdle /\ CcIdle
        /\ BaIdle /\ MmIdle /\ PwIdle /\ FcIdle

SpecRel == InitRel /\ [][RelNext]_vars

\* the registry over its lifetime
InitRegistry ==
    RegInit /\ RelIdle /\ MonIdle /\ AdIdle /\ SrIdle /\ CcIdle
        /\ BaIdle /\ MmIdle /\ PwIdle /\ FcIdle

SpecRegistry == InitRegistry /\ [][RegNext]_vars

\* monitoring cycles over a watchlist
InitMonitor ==
    MonInit /\ RelIdle /\ RegIdle /\ AdIdle /\ SrIdle /\ CcIdle
        /\ BaIdle /\ MmIdle /\ PwIdle /\ FcIdle

\* calls on one adapter
InitAdapter ==
    AdInit /\ RelIdle /\ RegIdle /\ MonIdle /\ SrIdle /\ CcIdle
        /\ BaIdle /\ MmIdle /\ PwIdle /\ FcIdle

SpecAdapter == InitAdapter /\ [][AdNext]_vars

\* searches served by search_products
InitSearch ==
    SrInit /\ RelIdle /\ RegIdle /\ MonIdle /\ AdIdle /\ CcIdle
        /\ BaIdle /\ MmIdle /\ PwIdle /\ FcIdle

SpecSearch == InitSearch /\ [][SrNext]_vars

SpecMonitor == InitMonitor /\ [][MonNext]_vars

\* runs of the cost calculator on one product of one shop
InitCost ==
    CostInit /\ RelIdle /\ RegIdle /\ MonIdle /\ AdIdle /\ SrIdle
        /\ BaIdle /\ MmIdle /\ PwIdle /\ FcIdle

SpecCost == InitCost /\ [][CostNext]_vars

\* exchange-rate lookups on one calculator
InitRates ==
    RatesInit /\ RelIdle /\ RegIdle /\ MonIdle /\ AdIdle /\ SrIdle
        /\ BaIdle /\ MmIdle /\ PwIdle /\ FcIdle

SpecRates == InitRates /\ [][RatesNext]_vars

\* one call of check_all_items on a list of watch entries
InitBatch ==
    BatchInit /\ RelIdle /\ RegIdle /\ MonIdle /\ AdIdle /\ SrIdle /\ CcIdle
        /\ MmIdle /\ PwIdle /\ FcIdle

SpecBatch == InitBatch /\ [][BatchNext]_vars

\* the same call on an event loop that keeps running what is ready: a task
\* whose adapter has answered, a gather whose tasks are done, a sleep that
\* is over
SpecBatchFair == SpecBatch /\ WF_vars(BatchNext)

\* concurrent exchange-rate lookups on one calculator
InitMemo ==
    MemoInit /\ RelIdle /\ RegIdle /\ MonIdle /\ AdIdle /\ SrIdle
        /\ BaIdle /\ PwIdle /\ FcIdle

SpecMemo == InitMemo /\ [][MemoNext]_vars

\* searches on one PlaywrightScraper
InitPlaywright ==
    PwInit /\ RelIdle /\ RegIdle /\ MonIdle /\ AdIdle /\ SrIdle /\ CcIdle
        /\ BaIdle /\ MmIdle /\ FcIdle

SpecPlaywright == InitPlaywright /\ [][PwNext]_vars

\* search requests over one feed adapter
InitCatalog ==
    FcInit /\ RelIdle /\ RegIdle /\ MonIdle /\ SrIdle /\ CcIdle
        /\ BaIdle /\ MmIdle /\ PwIdle

SpecCatalog == InitCatalog /\ [][FcNext]_vars

----------------------------------------------------------------------------
(* Claims *)

\* what the adapters that did not raise returned, in the order of the adapters
ReturnedBySucceeding ==
    Flatten([i \in 1..Len(sr_searched) |->
                IF sr_searched[i].kind = "return" THEN sr_searched[i].value ELSE <<>>])

\* C1: whatever adapters raise, search_products gets past its fan-out without
\* an exception, and the flattened candidate list is exactly what the
\* adapters that did not raise returned, in adapter order.
C1_FailingAdapterContributesNothing ==
    (sr_pc = "responded" /\ sr_adapters # <<>> /\ ~sr_request.include_costs) =>
        /\ sr_response.status = 200
        /\ all_results = ReturnedBySucceeding
        /\ sr_response.total_results = Len(ReturnedBySucceeding)

\* C1 happens: a search was answered after one adapter raised and another
\* returned candidates, all of which are in the flattened list.
C1_Witness ==
    /\ sr_pc = "responded"
    /\ ~sr_request.include_costs
    /\ sr_response.status = 200
    /\ \E i, j \in 1..Len(sr_searched) :
           /\ sr_searched[i].kind = "raise"
           /\ sr_searched[j].kind = "return"
           /\ Len(sr_searched[j].value) = 2
           /\ \A k \in 1..2 : \E n \in 1..Len(all_results) :
                  all_results[n] = sr_searched[j].value[k]


\* C6: a search or get_product call on a feed adapter that begins after an
\* import_feed of that adapter has completed makes no feed request.
C6_NoFetchAfterFirstImport ==
    (ad_setup.class = "FeedAdapter" /\ ad_ret.op \in {"search", "get_product"}
         /\ ad_ret.after_import) => ~ad_ret.fetched

\* C7: a search whose request failed (network error, timeout, error status)
\* or whose document did not have the expected structure returns an empty
\* list, and no search raises.
C7_SearchNeverRaises ==
    ad_ret.op = "search" =>
        /\ ad_ret.outcome = "return"
        /\ ad_ret.net \in {"error", "malformed"} => ad_ret.value = <<>>

\* C8: the list a search returns has at most query.limit items, and its
\* relevance scores do not increase from one item to the next.
C8_LimitedAndDescending ==
    (ad_ret.op = "search" /\ ad_ret.outcome = "return") =>
        /\ Len(ad_ret.value) <= ad_ret.arg.limit
        /\ \A i, j \in 1..Len(ad_ret.value) :
               i < j => ad_ret.value[i].relevance_score >= ad_ret.value[j].relevance_score

\* C8 happens: a search with limit 1 returned one item although the document
\* listed more that qualified, and it is the one listed last.
C8_Witness ==
    /\ ad_ret.op = "search"
    /\ ad_ret.outcome = "return"
    /\ ad_ret.arg.limit = 1
    /\ Len(ad_ret.value) = 1
    /\ ad_ret.value[1].external_id = "n1"
    /\ ad_ret.value[1].relevance_score > 0
    /\ site = "catalog"

\* C9: for every product and every query (any combination of set or unset
\* brand, category, color, style tags, size and free-text terms),
\* calculate_relevance returns a score s with 0 <= s <= 1.
C9_ScoreInUnitInterval ==
    rel_pc = "scored" =>
        /\ rel_product.relevance_score >= 0
        /\ rel_product.relevance_score <= ScoreOne

\* A scored product whose query carries a size that the product offers, next to
\* style tags of which only some occur in the product text.
C9_Witness ==
    /\ rel_pc = "scored"
    /\ rel_query.size = sM
    /\ rel_product.sizes = <<sM, sL>>
    /\ rel_query.style_tags = <<sTech, sCasual>>
    /\ rel_product.relevance_score > 0
    /\ rel_product.relevance_score < ScoreOne

\* The case of C10: the candidate's brand equals the query brand, its category
\* matches the query category, and every query term (length > 1) occurs in the
\* candidate text.
C10_Case ==
    LET pn == Lower(OrEmpty(rel_product.name))
        pb == Lower(OrEmpty(rel_product.brand))
        pd == Lower(OrEmpty(rel_product.description))
        pc == Lower(OrEmpty(rel_product.category))
        terms == query_terms(rel_query)
    IN  /\ rel_pc = "scored"
        /\ Truthy(rel_query.brand)
        /\ Truthy(rel_product.brand)
        /\ Lower(rel_query.brand) = pb
        /\ Truthy(rel_query.category)
        /\ AnySynonymIn(category_synonyms(Lower(rel_query.category)), pn, pc)
        /\ CountIn(terms, product_text(pn, pb, pd, pc)) = Len(terms)

\* C10 as stated: in that case calculate_relevance returns at least 0.9.
C10_AtLeastNineTenths ==
    C10_Case => rel_product.relevance_score * 10 >= 9 * ScoreOne

\* C10, amended: in that case calculate_relevance returns at least 0.80 when the
\* query has a term longer than one character, and at least 0.60 when it has none.
C10_AtLeastBrandCategoryTerms ==
    C10_Case =>
        rel_product.relevance_score >=
            (IF query_terms(rel_query) # <<>>
             THEN 80 ELSE 60) * ScoreUnit

\* The example of the claim: query "Nike hoodie black" with brand "Nike" and
\* category "hoodie" against "Nike Sportswear Tech Fleece Hoodie Black".
C10_Witness ==
    /\ C10_Case
    /\ rel_query.query = sNikeHoodieBlack
    /\ rel_query.brand = sNike
    /\ rel_query.category = sHoodie
    /\ rel_product.name = sNameNike
    /\ rel_product.brand = sNike
    /\ rel_product.category = sHoodie
    /\ rel_product.relevance_score = 80 * ScoreUnit


\* C4: no shop id ever has more than one adapter object constructed for it,
\* and a get_adapter call for a shop that has one returns exactly that object.
C4_AdapterSingleton ==
    /\ \A s \in ShopIds : constructed[s] <= 1
    /\ (reg_ret.op = "get_adapter" /\ reg_ret.shop_id \in ShopIds
            /\ constructed[reg_ret.shop_id] >= 1) =>
           /\ reg_ret.value = _adapters[reg_ret.shop_id]
           /\ reg_ret.value.inst = 1
           /\ reg_ret.value.shop_id = reg_ret.shop_id

\* C4 happens: get_adapter returned the shop's one adapter although a later
\* load_configs had replaced the configuration it was constructed from.
C4_Witness ==
    /\ reg_ret.op = "get_adapter"
    /\ reg_ret.value # NoAdapter
    /\ DictHas(_configs, reg_ret.shop_id)
    /\ DictGet(_configs, reg_ret.shop_id) # reg_ret.value.config
    /\ constructed[reg_ret.shop_id] = 1

\* the shops get_all_adapters would return an adapter for now
AllAdapterShops ==
    LET r == GetAllLoop(_configs, 1, _adapters, constructed, <<>>)
    IN  [shops |-> {r.value[i].shop_id : i \in 1..Len(r.value)}, count |-> Len(r.value)]

\* C5: when load_configs returns, every well-formed file's configuration is
\* registered, a shop whose file failed has no entry in _configs and
\* get_adapter gives no adapter for it, and get_all_adapters gives exactly one
\* adapter per configuration this load stored.
C5_FailingShopExcluded ==
    reg_ret.op = "load_configs" =>
        /\ \A s \in DictKeys(reg_ret.value) :
               DictHas(_configs, s) /\ DictGet(_configs, s) = DictGet(reg_ret.value, s)
        /\ \A s \in reg_ret.failed :
               /\ ~DictHas(_configs, s)
               /\ GetAdapter(s, _configs, _adapters, constructed).value = NoAdapter
        /\ AllAdapterShops.shops = DictKeys(reg_ret.value)
        /\ AllAdapterShops.count = Len(reg_ret.value)

\* the notifications process_price_checks returned for one watch entry
NotificationsFor(watchlist_id) ==
    {n \in 1..Len(notifications) : notifications[n].watchlist_id = watchlist_id}

\* C2: once process_price_checks has returned, every check whose
\* target_price_reached is true has exactly one notification and it is of
\* type "target", whatever notify_any_drop says; a check with a price decrease,
\* notify_any_drop false and the target not reached has no notification.
C2_TargetBeforeDrop ==
    mon_pc = "notified" =>
        \A k \in 1..Len(checks) :
            LET check == checks[k]
                item == _watchlist[check.watchlist_id]
                sent == NotificationsFor(check.watchlist_id)
            IN  /\ check.target_price_reached =>
                    /\ Cardinality(sent) = 1
                    /\ \A n \in sent : notifications[n].type = "target"
                /\ (check.price_dropped /\ ~item.notify_any_drop
                        /\ ~check.target_price_reached) => sent = {}

\* C2 happens: in one cycle, a check that both dropped and reached its target
\* on an entry that asked for every drop got the single "target" alert, and a
\* check that dropped short of its target on an entry that did not got none.
C2_Witness ==
    /\ mon_pc = "notified"
    /\ \E k \in 1..Len(checks) :
           /\ checks[k].target_price_reached /\ checks[k].price_dropped
           /\ _watchlist[checks[k].watchlist_id].notify_any_drop
           /\ \E n \in 1..Len(notifications) :
                  /\ notifications[n].watchlist_id = checks[k].watchlist_id
                  /\ notifications[n].type = "target"
    /\ \E k \in 1..Len(checks) :
           /\ checks[k].price_dropped /\ ~checks[k].target_price_reached
           /\ ~_watchlist[checks[k].watchlist_id].notify_any_drop
           /\ NotificationsFor(checks[k].watchlist_id) = {}

\* C3: once process_price_checks has returned, an entry whose check observed a
\* price equal to or higher than its last known price has no notification.
C3_NoAlertWithoutDecrease ==
    mon_pc = "notified" =>
        \A k \in 1..Len(checks) :
            checks[k].new_price >= checks[k].old_price =>
                NotificationsFor(checks[k].watchlist_id) = {}

\* the value of a populated cost field
Field(f) == cc_product[f][1]

\* C11: for a shop in the home region (SE) or the customs union (EU), a run
\* of calculate_total_cost that returns leaves customs_cost = 0, vat_cost = 0
\* and total_cost = price + shipping_cost, whatever the price, the shipping
\* policy, the category and the product's currency.
C11_NoDutyInsideUnion ==
    (cc_runs > 0 /\ cc_config.region \in {"SE", "EU"} /\ ~cc_ret.raised) =>
        /\ cc_product.customs_cost = Some(Zero)
        /\ cc_product.vat_cost = Some(Zero)
        /\ cc_product.total_cost = Some(DecAdd(cc_product.price, Field("shipping_cost")))

\* a product priced in USD from a shop of the customs union that charges
\* shipping has been through the calculator
C11_Witness ==
    /\ cc_runs > 0
    /\ cc_config.region = "EU"
    /\ cc_product.currency = "USD"
    /\ ~cc_ret.raised
    /\ cc_product.shipping_cost = Some(Dec(2000, 1))
    /\ cc_product.total_cost = Some(Dec(18429, 1))

\* price + shipping in EUR, as calculate_customs received them
AssessedValue == DecAdd(cc_ret.price_eur, cc_ret.shipping_eur)

\* the run has handed finite EUR amounts of a shop outside the union to
\* calculate_customs
Assessed ==
    /\ cc_runs > 0
    /\ cc_config.region = "NON_EU"
    /\ IsFinite(cc_ret.price_eur) /\ IsFinite(cc_ret.shipping_eur)

\* C12: for a shop outside the union, when price + shipping in EUR is at or
\* under 150 the duty is 0 and the import VAT is 0.25 x (price + shipping)
\* rounded half-up to 1/100; a non-zero duty occurs only above 150.
C12_DeMinimis ==
    Assessed =>
        /\ AssessedValue.n <= 15000 * AssessedValue.d =>
               /\ cc_ret.customs_eur = Zero
               /\ cc_ret.vat_eur =
                      Quantize(DecMul(AssessedValue, Dec(25, 100)), cc_ret.ties[3])
        /\ cc_ret.customs_eur # Zero => AssessedValue.n > 15000 * AssessedValue.d

\* price 100.00 EUR with shipping 10.00: duty 0 and VAT 27.50
C12_Witness ==
    /\ Assessed
    /\ cc_product.currency = "EUR"
    /\ cc_product.price = Dec(10000, 1)
    /\ cc_product.shipping_cost = Some(Dec(1000, 1))
    /\ cc_product.customs_cost = Some(Zero)
    /\ cc_product.vat_cost = Some(Dec(2750, 1))

\* the duty rate of C13: the first bucket, in the order clothing, footwear,
\* accessories, one of whose keywords occurs in the category; else the default
BucketRate(category) ==
    LET cat == IF Truthy(category) THEN Lower(category) ELSE <<>>
        has(words) == \E w \in words : IsSubstr(w, cat)
    IN  CASE has({sShirt, sPants, sJacket, sDress, sCoat}) -> Dec(12, 100)
          [] ~has({sShirt, sPants, sJacket, sDress, sCoat})
             /\ has({sShoe, sBoot, sSneaker, sSandal}) -> Dec(8, 100)
          [] ~has({sShirt, sPants, sJacket, sDress, sCoat, sShoe, sBoot, sSneaker, sSandal})
             /\ has({sBag, sBelt, sWatch, sJewelry}) -> Dec(4, 100)
          [] OTHER -> Dec(5, 100)

\* C13: for a shop outside the union and price + shipping in EUR above 150,
\* duty = rate x price rounded to 1/100, with the rate of the first matching
\* bucket (0.12 for clothing), import VAT = 0.25 x (price + shipping + duty)
\* rounded to 1/100, and, for a product priced in EUR, total = price +
\* shipping + duty + VAT.
C13_DutyAboveDeMinimis ==
    (Assessed /\ AssessedValue.n > 15000 * AssessedValue.d) =>
        /\ cc_ret.customs_eur =
               Quantize(DecMul(cc_ret.price_eur, BucketRate(cc_product.category)),
                        cc_ret.ties[2])
        /\ cc_ret.vat_eur =
               Quantize(DecMul(DecAdd(AssessedValue, cc_ret.customs_eur), Dec(25, 100)),
                        cc_ret.ties[3])
        /\ (cc_product.currency = "EUR" /\ ~cc_ret.raised) =>
               cc_product.total_cost =
                   Some(DecAdd(DecAdd(DecAdd(cc_product.price, Field("shipping_cost")),
                                      Field("customs_cost")), Field("vat_cost")))

\* a jacket at 200.00 EUR with shipping 20.00: duty 24.00, VAT 61.00 and
\* total 305.00
C13_Witness ==
    /\ Assessed
    /\ cc_product.currency = "EUR"
    /\ cc_product.category = sCatJacket
    /\ cc_product.price = Dec(20000, 1)
    /\ cc_product.shipping_cost = Some(Dec(2000, 1))
    /\ cc_product.customs_cost = Some(Dec(2400, 1))
    /\ cc_product.vat_cost = Some(Dec(6100, 1))
    /\ cc_product.total_cost = Some(Dec(30500, 1))

\* C14: the shipping cost calculate_shipping returns is 0 if the shop's file
\* says it cannot ship to Sweden; otherwise 0 when the file configures a
\* free-shipping threshold and price >= threshold, and the file's flat cost
\* (0 if it has none) when price < threshold or no threshold is configured.
C14_ShippingByThreshold ==
    cc_runs > 0 =>
        LET shipping == cc_doc.shipping
            price == cc_product.price
        IN  cc_ret.shipping =
                IF ~Get(shipping, "ships_to_sweden", TRUE) THEN Zero
                ELSE IF "free_threshold" \in DOMAIN shipping
                        /\ price.n >= shipping.free_threshold * price.d
                     THEN Zero
                     ELSE Dec(Get(shipping, "base_cost", 0), 1)

\* C15: after a run that returns, total_cost is the sum of the price and the
\* reported shipping_cost, customs_cost and vat_cost, and total_cost_sek is
\* the reported total_cost times the product currency's rate to SEK, rounded
\* half-up to 1/100.
C15_TotalsOfReportedComponents ==
    (cc_runs > 0 /\ ~cc_ret.raised) =>
        /\ cc_product.total_cost =
               Some(DecAdd(DecAdd(DecAdd(cc_product.price, Field("shipping_cost")),
                                  Field("customs_cost")), Field("vat_cost")))
        /\ cc_product.total_cost_sek =
               Some(Quantize(DecMul(Field("total_cost"), cc_ret.rates[1]), cc_ret.ties[4]))

\* the static-table answer C19 describes: the table's rate to SEK, or for a
\* pair the table does not hold the quotient of the two rates to SEK (a
\* currency the table does not know counting as 1)
TableRate(from_currency, to_currency) ==
    LET table == [EUR |-> Dec(1150, 100), USD |-> Dec(1050, 100),
                  GBP |-> Dec(1350, 100), SEK |-> Dec(1, 1)]
        to_sek(c) == IF c \in DOMAIN table THEN table[c] ELSE Dec(1, 1)
    IN  IF to_currency = "SEK" /\ from_currency \in DOMAIN table
        THEN table[from_currency]
        ELSE DecDiv(to_sek(from_currency), to_sek(to_currency))

\* C19: get_exchange_rate returns 1 for a same-currency pair without asking
\* the provider, asks the provider only when a key is configured, and when
\* the pair is not memoized and the provider is not asked or fails it returns
\* the static-table rate, pivoting through SEK for a pair the table lacks.
C19_RateFallsBackToTable ==
    cc_runs > 0 =>
        /\ cc_ret.from_currency = cc_ret.to_currency =>
               cc_ret.rate = One /\ ~cc_ret.fetched
        /\ cc_ret.fetched => api_key
        /\ (/\ cc_ret.from_currency # cc_ret.to_currency
            /\ ~cc_ret.cached
            /\ (~api_key \/ cc_ret.net = "error")) =>
               cc_ret.rate = TableRate(cc_ret.from_currency, cc_ret.to_currency)

\* with a key configured the provider failed on USD -> EUR, a pair the table
\* does not hold, and the call returned 10.50 / 11.50
C19_Witness ==
    /\ cc_runs > 0
    /\ api_key
    /\ cc_ret.from_currency = "USD" /\ cc_ret.to_currency = "EUR"
    /\ cc_ret.fetched /\ cc_ret.net = "error"
    /\ cc_ret.rate = Inexact(Dec(21, 23))

\* the last two runs returned and worked with the same rates, every inexact
\* value ending up on the same side
SameInputsAgain ==
    /\ cc_runs >= 2
    /\ ~cc_ret.raised /\ ~cc_ret.previous.raised
    /\ cc_ret.rates = cc_ret.previous.rates
    /\ cc_ret.ties = cc_ret.previous.ties

\* C20: a run of calculate_total_cost on a product that an earlier run with
\* the same shop configuration and the same rates has populated leaves all
\* five cost fields as they were.
C20_RerunChangesNothing ==
    SameInputsAgain => CostsOf(cc_product) = cc_ret.before

\* a USD product of a shop outside the union, with shipping, duty and VAT
\* charged, has gone through the calculator twice
C20_Witness ==
    /\ SameInputsAgain
    /\ cc_product.currency = "USD"
    /\ cc_config.region = "NON_EU"
    /\ Field("shipping_cost") # Zero
    /\ Field("customs_cost") # Zero
    /\ Field("vat_cost") # Zero

\* C16: the five cost fields of a product are all populated or all absent in
\* every state another task can run in, whether calculate_total_cost has
\* returned, has raised or has not run.
C16_CostFieldsAllOrNone ==
    \/ \A f \in CostFields : cc_product[f] = NoneNum
    \/ \A f \in CostFields : cc_product[f] # NoneNum

\* C17: when costs are requested and the calculator fails for a candidate,
\* search_products still answers, every candidate is in the answer, the
\* failed candidate without landed cost and the others with theirs.
C17_CostFailureKeepsCandidate ==
    (sr_pc = "responded" /\ sr_request.include_costs /\ sr_costs # <<>>) =>
        /\ sr_response.status = 200
        /\ sr_response.total_results = Len(sr_costs)
        /\ \A i \in 1..Len(sr_costs) :
               /\ \E n \in 1..Len(sr_response.results) :
                      sr_response.results[n] = all_results[i]
               /\ all_results[i].total_cost_sek = NoneNum <=> sr_costs[i].kind = "raise"

\* the landed cost C18 orders by: total_cost_sek, the list price if it is unset
LandedOrPrice(p) ==
    IF p.total_cost_sek = NoneNum THEN p.price ELSE p.total_cost_sek[1]

\* how often a candidate occurs in a list
Occurrences(l, p) == Cardinality({n \in 1..Len(l) : l[n] = p})

\* C18: the answered list holds the candidates of all_results, by relevance
\* score descending and, among equal scores, by landed cost ascending, the
\* list price standing in for a landed cost that is unset.
C18_OrderedByRelevanceThenCost ==
    (sr_pc = "responded" /\ sr_response.status = 200) =>
        LET results == sr_response.results
        IN  /\ Len(results) = Len(all_results)
            /\ \A n \in 1..Len(results) :
                   Occurrences(results, results[n]) = Occurrences(all_results, results[n])
            /\ \A i, j \in 1..Len(results) :
                   i < j =>
                       \/ results[i].relevance_score > results[j].relevance_score
                       \/ /\ results[i].relevance_score = results[j].relevance_score
                          /\ LandedOrPrice(results[i]) <= LandedOrPrice(results[j])

\* two candidates of equal relevance score and equal list price were
\* answered in the order of their landed costs, the reverse of the order the
\* adapters delivered them in
C18_Witness ==
    /\ sr_pc = "responded"
    /\ sr_response.status = 200
    /\ sr_request.include_costs
    /\ \E i, j \in 1..Len(all_results) :
           /\ i < j
           /\ all_results[i].relevance_score = all_results[j].relevance_score
           /\ all_results[i].price = all_results[j].price
           /\ LandedOrPrice(all_results[j]) < LandedOrPrice(all_results[i])
           /\ \E m, n \in 1..Len(sr_response.results) :
                  /\ m < n
                  /\ sr_response.results[m] = all_results[j]
                  /\ sr_response.results[n] = all_results[i]

\* the entries of the list whose adapter returns a price, in list order
PricedEntries ==
    SelectSeq(ba_items, LAMBDA item : Fate(item, ba_pattern) = "price")

BatchNumber(k) == (k - 1) \div 10

\* C22: the checks in flight all belong to one batch of ten consecutive
\* entries; a check of a batch has started only when every check of the
\* batches before it has ended and as many pacing delays have elapsed as
\* there are batches before it; and a call that has returned has slept
\* once between every two consecutive batches and not after the last.
C22_OneBatchAtATime ==
    /\ \A k \in InFlight, j \in InFlight : BatchNumber(k) = BatchNumber(j)
    /\ ba_pc = "gathering" =>
           DOMAIN ba_tasks =
               {k \in 1..Len(ba_items) : 10 * ba_sleeps < k /\ k <= 10 * ba_sleeps + 10}
    /\ \A k \in 1..Len(ba_items) :
           ba_started[k] > 0 =>
               /\ ba_sleeps >= BatchNumber(k)
               /\ k \in InFlight => ba_sleeps = BatchNumber(k)
               /\ \A j \in 1..Len(ba_items) :
                      BatchNumber(j) < BatchNumber(k) =>
                          ba_started[j] > 0 /\ j \notin InFlight
    /\ ba_pc = "returned" =>
           ba_sleeps = IF ba_items = <<>> THEN 0 ELSE BatchNumber(Len(ba_items))

\* C22 witness: the single check of the third batch of a list of 21 entries
\* is in flight, after two pacing delays
C22_Witness ==
    /\ ba_pc = "gathering"
    /\ Len(ba_items) = 21
    /\ InFlight = {21}
    /\ ba_sleeps = 2

\* C30: on an event loop that keeps running, check_all_items returns; when
\* it has, every entry has been checked exactly once and the outcomes stand
\* in the order of their entries.
C30_ReturnsHavingCheckedEachOnce ==
    /\ <>(ba_pc = "returned")
    /\ [](ba_pc = "returned" =>
              /\ \A k \in 1..Len(ba_items) : ba_started[k] = 1
              /\ \A a \in 1..Len(ba_results), b \in 1..Len(ba_results) :
                     a < b => ba_results[a].watchlist_id < ba_results[b].watchlist_id)

\* C30 witness: the call has returned on a list of 21 entries with more
\* than one outcome
C30_Witness ==
    /\ ba_pc = "returned"
    /\ Len(ba_items) = 21
    /\ \A k \in 1..21 : ba_started[k] = 1
    /\ Len(ba_results) > 1

\* C26: whenever the registry holds a cached adapter for a shop, the
\* configuration that adapter was built with is the configuration _configs
\* holds for the shop id, the one get_config returns and add_costs hands to
\* the cost calculator.
C26_CachedAdapterSharesConfig ==
    \A s \in ShopIds :
        Cached(_adapters, s) =>
            DictHas(_configs, s) /\ _adapters[s].config = DictGet(_configs, s)

\* C27: a load_configs call that finds the files as the previous call read
\* them leaves _configs with the keys and values it had, and leaves the
\* cached adapters as they were.
C27_ReloadChangesNothing ==
    (reg_ret.op = "load_configs" /\ reg_ret.repeated) =>
        /\ DictKeys(_configs) = DictKeys(reg_ret.before.configs)
        /\ \A s \in DictKeys(_configs) :
               DictGet(_configs, s) = DictGet(reg_ret.before.configs, s)
        /\ _adapters = reg_ret.before.adapters

\* C27 witness: a second load of the same files, with a configuration in
\* the map and an adapter in the cache
C27_Witness ==
    /\ reg_ret.op = "load_configs"
    /\ reg_ret.repeated
    /\ _configs # <<>>
    /\ \E s \in ShopIds : Cached(_adapters, s)

\* C29: in a monitoring cycle, an entry whose current_price is the price
\* the shop shows (the price of an earlier check has been written back and
\* the shop has not changed it) gets an outcome with price_dropped false
\* and drop_amount 0, and no price-drop notification.
C29_WriteBackClosesDrop ==
    mon_pc \in {"checked", "notified"} =>
        \A k \in 1..Len(checks) :
            LET item == _watchlist[checks[k].watchlist_id]
            IN  item.current_price
                    = shop_price[[shop_id |-> item.shop_id, product_id |-> item.product_id]] =>
                    /\ ~checks[k].price_dropped
                    /\ checks[k].drop_amount = 0
                    /\ mon_pc = "notified" =>
                           \A n \in 1..Len(notifications) :
                               notifications[n].watchlist_id = item.id =>
                                   notifications[n].type # "drop"

\* C29 witness: an entry that asks for every drop, whose price has gone down
\* since it was added and has been written back, has been checked again at
\* that same price and the notifications of the cycle are decided
C29_Witness ==
    /\ mon_pc = "notified"
    /\ \E k \in 1..Len(checks) :
           LET item == _watchlist[checks[k].watchlist_id]
           IN  /\ item.notify_any_drop
               /\ item.target_price = NoneNum
               /\ item.price_at_add > item.current_price
               /\ checks[k].new_price = item.current_price

\* C23: on one calculator, any two get_exchange_rate calls for the same
\* currency pair return the same rate, whatever the order in which the
\* calls and their fetches interleave and whichever fetches fail.
C23_OneRatePerPair ==
    \A a \in 1..Len(rate_log), b \in 1..Len(rate_log) :
        (rate_log[a].from_currency = rate_log[b].from_currency
            /\ rate_log[a].to_currency = rate_log[b].to_currency) =>
            rate_log[a].rate = rate_log[b].rate

\* C24: as long as the first browser a PlaywrightScraper launched is
\* connected, the instance has launched no second browser and created no
\* second context, however many searches run on it and however they
\* interleave.
C24_OneSessionPerInstance ==
    1 \notin pw_lost => pw_launched <= 1 /\ pw_contexts <= 1

\* C25: every item of a response carries the relevance score of its
\* record for the query of that response's own request.
C25_OwnQueryScores ==
    \A i \in 1..Len(fc_searches) :
        fc_searches[i].pc = "responded" =>
            \A j \in 1..Len(fc_searches[i].response) :
                fc_searches[i].response[j].relevance_score =
                    RelevanceTable[fc_searches[i].query][
                        AsBuilt(DictGet(_products, fc_searches[i].response[j].external_id))]

\* C28: every item of the response to a request that did not ask for
\* costs has its five cost fields unset.
C28_NoCostsUnlessAsked ==
    \A i \in 1..Len(fc_searches) :
        (fc_searches[i].pc = "responded" /\ ~fc_searches[i].include_costs) =>
            \A j \in 1..Len(fc_searches[i].response) :
                fc_searches[i].response[j].costs = NoCosts

====
